---- MODULE Spec2Model ----
(***************************************************************************)
(* A state-machine model of the BLE fitness-sensor relay firmware          *)
(* (seoul04/zwift_smartload): the FTMS Control Point translator, the       *)
(* grade limiter, the GATT discovery walk with the notification relay,     *)
(* and the connection manager.  Each component has its own specification   *)
(* (SpecCP, SpecGL, SpecDisc, SpecConn) over the shared variables.         *)
(***************************************************************************)
EXTENDS Integers, Sequences, FiniteSets, TLC

(***************************************************************************)
(* Program constants                                                       *)
(***************************************************************************)
MAX_CONNECTIONS == 3
MAX_SUBSCRIPTIONS_PER_CONN == 5

FTMS_CP_REQUEST_CONTROL == 0
FTMS_CP_SET_TARGET_RESISTANCE == 4
FTMS_CP_SET_INDOOR_BIKE_SIM == 17
FTMS_CP_RESPONSE_CODE == 128

FTMS_CP_RESPONSE_SIZE == 20
FTMS_CP_WRITE_BUF_SIZE == 32

BT_GATT_CCC_NOTIFY == 1
BT_GATT_CCC_INDICATE == 2

\* BT_GATT_ERR(BT_ATT_ERR_INVALID_OFFSET) = -0x07,
\* BT_GATT_ERR(BT_ATT_ERR_INVALID_ATTRIBUTE_LEN) = -0x0d
ERR_INVALID_OFFSET == -7
ERR_INVALID_ATTRIBUTE_LEN == -13

\* grade_limiter.h, grade_limiter.c
SPEED_MIN == 1000
SPEED_MAX == 3000
NUM_BUCKETS == 50
BUCKET_WIDTH == 40
MAX_GRADE_INITIAL == 2000
MIN_GRADE_LIMIT == 100
LEARN_PERCENT == 90
DECAY_STEP == 10
DECAY_INTERVAL_SECONDS == 3600
ACTIVE_CHECK_INTERVAL_MS == 1000

\* common.h
MAX_SAVED_DEVICES == 4
CP_TIMEOUT_MS == 5000

(***************************************************************************)
(* Bounds of the model                                                     *)
(***************************************************************************)
\* commands forwarded to the trainer whose response it has not sent yet
MaxPending == 2
\* clock steps taken in a run
MaxTicks == 2
\* sensor notifications relayed in a run
MaxNotifs == 1
\* notifications relayed in a run of the data-plane relay
MaxRelayed == 3

(***************************************************************************)
(* Integer helpers: C arithmetic                                           *)
(***************************************************************************)
Min2(a, b) == IF a < b THEN a ELSE b
Max2(a, b) == IF a > b THEN a ELSE b

\* C integer division truncates toward zero
CDiv(a, b) == IF a >= 0 THEN a \div b ELSE -((-a) \div b)

\* sys_le16_to_cpu of two little-endian bytes, as uint16_t
LE16(lo, hi) == lo + 256 * hi

\* conversion of a uint16_t bit pattern to int16_t
ToInt16(u) == IF u >= 32768 THEN u - 65536 ELSE u

\* the little-endian bytes of an int16_t
Lo8(v) == (v % 65536) % 256
Hi8(v) == (v % 65536) \div 256

NoConn == "none"
Zwift == "zwift"

VARIABLES
    \* ---- slot table (main.c) ----
    connections,
    \* ---- Control Point translator (ftms_control_point.c) ----
    peripheral_conn,
    ftms_cp_indicate_enabled,
    ftms_cp_indicating,
    last_cmd_was_converted,
    ftms_cp_response,
    ftms_cp_write_buf,
    ftms_cp_write_busy,
    ftms_cp_response_work,
    cp_write_ret,
    cp_write_log,
    sim_event,
    \* ---- host stack and peers, as the translator sees them ----
    gatt_writes,
    trainer_rsp,
    indications,
    \* ---- history of the translator ----
    rsp_origin,
    rsp_unsent,
    \* ---- grade limiter (grade_limiter.c) ----
    max_safe_grade,
    current_applied_grade,
    current_speed,
    active_time_seconds,
    last_active_check_time,
    last_decay_at_seconds,
    nvs_grade_limits,
    apply_result,
    uptime,
    ticks,
    \* ---- device manager (device_manager.c, nvs_storage.c) ----
    device_list,
    pending_conn,
    conn_timeout_work,
    scan_window_active,
    scan_window_timeout,
    saved_devices,
    save_err,
    \* ---- host stack, as the central role sees it ----
    conn_state,
    scanning,
    discovering,
    host_subs,
    disc_log,
    in_range,
    advertising,
    \* ---- data-plane relay (notification_handler.c) ----
    cached_cp_data,
    last_cp_data_time,
    total_rx_count,
    measurement,
    notified,
    notify_src

cpVars == <<peripheral_conn, ftms_cp_indicate_enabled, ftms_cp_indicating,
            last_cmd_was_converted, ftms_cp_response, ftms_cp_write_buf,
            ftms_cp_write_busy, ftms_cp_response_work, cp_write_ret,
            cp_write_log, sim_event, gatt_writes, trainer_rsp, indications,
            rsp_origin, rsp_unsent>>

glVars == <<max_safe_grade, current_applied_grade, current_speed,
            active_time_seconds, last_active_check_time,
            last_decay_at_seconds, nvs_grade_limits, apply_result, uptime,
            ticks>>

dmVars == <<device_list, pending_conn, conn_timeout_work, scan_window_active,
            scan_window_timeout, saved_devices, save_err>>

hostVars == <<conn_state, scanning, discovering, host_subs, disc_log,
              in_range, advertising>>

relayVars == <<cached_cp_data, last_cp_data_time, total_rx_count,
               measurement, notified, notify_src>>

vars == <<connections, cpVars, glVars, dmVars, hostVars, relayVars>>

\* the translator's variables without peripheral_conn
cpRest == <<ftms_cp_indicate_enabled, ftms_cp_indicating,
            last_cmd_was_converted, ftms_cp_response, ftms_cp_write_buf,
            ftms_cp_write_busy, ftms_cp_response_work, cp_write_ret,
            cp_write_log, sim_event, gatt_writes, trainer_rsp, indications,
            rsp_origin, rsp_unsent>>

\* the limiter's variables without the clock
glRest == <<max_safe_grade, current_applied_grade, current_speed,
            active_time_seconds, last_active_check_time,
            last_decay_at_seconds, nvs_grade_limits, apply_result>>

(***************************************************************************)
(* Slot table                                                              *)
(***************************************************************************)
Slots == 0 .. (MAX_CONNECTIONS - 1)

SubIdx == 0 .. (MAX_SUBSCRIPTIONS_PER_CONN - 1)

\* struct conn_slot after static zero initialisation
NoUuid == "null"

\* struct bt_gatt_discover_params, zeroed (type 0 is BT_GATT_DISCOVER_PRIMARY)
ZeroDiscoverParams == [type |-> "primary", uuid |-> NoUuid, start_handle |-> 0]

\* struct bt_gatt_subscribe_params, zeroed
ZeroSubscribeParams ==
    [notify |-> "null", value |-> 0, value_handle |-> 0, ccc_handle |-> 0]

\* struct conn_slot after static zero initialisation
EmptySlot ==
    [conn |-> NoConn,
     discover_params |-> ZeroDiscoverParams,
     subscribe_params |-> [j \in SubIdx |-> ZeroSubscribeParams],
     subscribe_count |-> 0,
     service_type |-> [j \in SubIdx |-> 0],
     discover_service_index |-> 0,
     ftms_control_point_handle |-> 0,
     temp_value_handle |-> 0,
     rssi |-> 0]

(***************************************************************************)
(* Control Point translator                                                *)
(***************************************************************************)
\* a conversion without the lower clamp
GRADE_RESISTANCE_NoFloor(x) == Min2(CDiv(x + 100, 20), 100)

\* #define GRADE_RESISTANCE(x) MAX(MIN(((x) + 100) / 20, 100), 0)
GRADE_RESISTANCE(x) == Max2(Min2(CDiv(x + 100, 20), 100), 0)

\* a translation test that looks at the length only
IsSimulationWrite_AnyOpcode(cmd) == Len(cmd) >= 5

\* cmd[0] == FTMS_CP_SET_INDOOR_BIKE_SIM && len >= 5, for len >= 1
IsSimulationWrite(cmd) ==
    cmd[1] = FTMS_CP_SET_INDOOR_BIKE_SIM /\ Len(cmd) >= 5

\* the first slot with a link and a non-zero Control Point handle, or -1
TrainerSlot ==
    LET cand == {i \in Slots : connections[i].conn # NoConn
                               /\ connections[i].ftms_control_point_handle # 0}
    IN IF cand = {} THEN -1
       ELSE CHOOSE i \in cand : \A j \in cand : i <= j

\* a variant of the forwarding checks without the write-busy check
ForwardVerdict_NoBusy(trainer_slot, len) ==
    IF trainer_slot = -1 THEN "no_trainer"
    ELSE IF len > FTMS_CP_WRITE_BUF_SIZE THEN "too_long"
    ELSE "forward"

\* the checks between the translation and the forwarding: a trainer slot
\* exists, the command fits the write buffer, no write is in progress
ForwardVerdict(trainer_slot, len) ==
    IF trainer_slot = -1 THEN "no_trainer"
    ELSE IF len > FTMS_CP_WRITE_BUF_SIZE THEN "too_long"
    ELSE IF ftms_cp_write_busy THEN "busy"
    ELSE "forward"

\* a Set Indoor Bike Simulation command with wind speed 0 and the given grade
SimCmd(grade) == <<FTMS_CP_SET_INDOOR_BIKE_SIM, 0, 0, Lo8(grade), Hi8(grade)>>

Grades == {500}

CompanionWrites ==
    {SimCmd(g) : g \in Grades}
    \cup {<<FTMS_CP_REQUEST_CONTROL>>,
          <<FTMS_CP_SET_INDOOR_BIKE_SIM, 0>>,
          <<>>}

NoEvent == [grade |-> 0, resistance |-> -1]

\* an argument check that ignores the offset
WriteCheck_NoOffset(len, offset) ==
    IF len < 1 THEN "invalid_length" ELSE "ok"

\* the argument checks at the top of ftms_control_point_write: the offset
\* first, then the length
WriteCheck(len, offset) ==
    IF offset # 0 THEN "invalid_offset"
    ELSE IF len < 1 THEN "invalid_length"
    ELSE "ok"

\* ssize_t ftms_control_point_write(conn, attr, buf, len, offset, flags);
\* err: bt_gatt_write is rejected by the host stack
ftms_control_point_write(conn, cmd, offset, err) ==
    LET len == Len(cmd) IN
    IF WriteCheck(len, offset) = "invalid_offset" THEN
        /\ cp_write_ret' = ERR_INVALID_OFFSET
        /\ cp_write_log' = "invalid_offset"
        /\ UNCHANGED <<peripheral_conn, last_cmd_was_converted,
                       ftms_cp_write_buf, ftms_cp_write_busy, sim_event,
                       gatt_writes>>
    ELSE IF WriteCheck(len, offset) = "invalid_length" THEN
        /\ cp_write_ret' = ERR_INVALID_ATTRIBUTE_LEN
        /\ cp_write_log' = "invalid_length"
        /\ UNCHANGED <<peripheral_conn, last_cmd_was_converted,
                       ftms_cp_write_buf, ftms_cp_write_busy, sim_event,
                       gatt_writes>>
    ELSE
        LET converted == IsSimulationWrite(cmd)
            grade == IF converted THEN ToInt16(LE16(cmd[4], cmd[5])) ELSE 0
            resistance == GRADE_RESISTANCE(grade)
            forward_cmd == IF converted
                           THEN <<FTMS_CP_SET_TARGET_RESISTANCE, resistance % 256>>
                           ELSE cmd
            trainer_slot == TrainerSlot
            verdict == ForwardVerdict(trainer_slot, len)
        IN
        /\ peripheral_conn' = IF peripheral_conn = NoConn THEN conn
                              ELSE peripheral_conn
        /\ last_cmd_was_converted' = converted
        /\ sim_event' = IF converted
                        THEN [grade |-> grade, resistance |-> resistance]
                        ELSE sim_event
        /\ IF verdict = "forward" THEN
              /\ ftms_cp_write_buf' = forward_cmd
              /\ ftms_cp_write_busy' = ~err
              /\ cp_write_log' = IF err THEN "write_failed" ELSE "forwarded"
              /\ gatt_writes' =
                    IF err THEN gatt_writes
                    ELSE Append(gatt_writes,
                                [slot |-> trainer_slot,
                                 handle |->
                                   connections[trainer_slot].ftms_control_point_handle,
                                 data |-> forward_cmd,
                                 translated |-> converted,
                                 grade |-> grade])
           ELSE /\ cp_write_log' = verdict
                /\ UNCHANGED <<ftms_cp_write_buf, ftms_cp_write_busy,
                               gatt_writes>>
        /\ cp_write_ret' = len

\* static void ftms_cp_write_cb(conn, err, params): the completion of the
\* oldest outstanding write; a write the trainer accepted is answered later
\* with an indication echoing its opcode
ftms_cp_write_cb(err) ==
    /\ gatt_writes # <<>>
    /\ ftms_cp_write_busy' = FALSE
    /\ gatt_writes' = Tail(gatt_writes)
    /\ trainer_rsp' =
          IF err THEN trainer_rsp
          ELSE Append(trainer_rsp,
                      [opcode |-> Head(gatt_writes).data[1],
                       translated |-> Head(gatt_writes).translated])

\* the rewrite condition of the echoed opcode
ConvertResponse(flag, rsp) ==
    /\ flag
    /\ Len(rsp) >= 3
    /\ rsp[1] = FTMS_CP_RESPONSE_CODE
    /\ rsp[2] = FTMS_CP_SET_TARGET_RESISTANCE

\* uint8_t ftms_cp_indicate_func(conn, params, data, length): a Control Point
\* indication of the trainer (data # NULL); origin: the command it answers
\* was a translated one
ftms_cp_indicate_func(data, origin) ==
    IF peripheral_conn # NoConn /\ ftms_cp_indicate_enabled THEN
        LET length == Min2(Len(data), FTMS_CP_RESPONSE_SIZE)
            copied == SubSeq(data, 1, length)
            conv == ConvertResponse(last_cmd_was_converted, copied)
        IN
        /\ ftms_cp_response' =
              IF conv THEN [copied EXCEPT ![2] = FTMS_CP_SET_INDOOR_BIKE_SIM]
              ELSE copied
        /\ last_cmd_was_converted' =
              IF conv THEN FALSE ELSE last_cmd_was_converted
        /\ ftms_cp_response_work' = TRUE
        /\ rsp_origin' = origin
        /\ rsp_unsent' = TRUE
    ELSE
        UNCHANGED <<ftms_cp_response, last_cmd_was_converted,
                    ftms_cp_response_work, rsp_origin, rsp_unsent>>

\* a work handler that indicates without looking at the busy flag
ftms_cp_response_work_handler_NoBusy(err) ==
    /\ ftms_cp_response_work
    /\ ftms_cp_response_work' = FALSE
    /\ IF peripheral_conn # NoConn /\ ftms_cp_indicate_enabled
       THEN
          /\ ftms_cp_indicating' = ~err
          /\ indications' =
                IF err THEN indications
                ELSE Append(indications,
                            [data |-> ftms_cp_response, origin |-> rsp_origin])
          /\ rsp_unsent' = FALSE
       ELSE UNCHANGED <<ftms_cp_indicating, indications, rsp_unsent>>

\* static void ftms_cp_response_work_handler(work), run by the system work
\* queue once the work item was submitted; err: bt_gatt_indicate fails
ftms_cp_response_work_handler(err) ==
    /\ ftms_cp_response_work
    /\ ftms_cp_response_work' = FALSE
    /\ IF peripheral_conn # NoConn /\ ftms_cp_indicate_enabled
          /\ ~ftms_cp_indicating
       THEN
          /\ ftms_cp_indicating' = ~err
          /\ indications' =
                IF err THEN indications
                ELSE Append(indications,
                            [data |-> ftms_cp_response, origin |-> rsp_origin])
          /\ rsp_unsent' = FALSE
       ELSE UNCHANGED <<ftms_cp_indicating, indications, rsp_unsent>>

\* a completion that leaves the busy flag as it is
ftms_cp_indicate_destroy_KeepBusy ==
    /\ indications # <<>>
    /\ ftms_cp_indicating' = ftms_cp_indicating
    /\ indications' = Tail(indications)

\* ftms_cp_indicate_cb (logs only) followed by ftms_cp_indicate_destroy: the
\* host stack reports the oldest outstanding indication complete
ftms_cp_indicate_destroy ==
    /\ indications # <<>>
    /\ ftms_cp_indicating' = FALSE
    /\ indications' = Tail(indications)

\* void ftms_cp_ccc_cfg_changed(attr, value); a response waiting to be sent
\* is no longer owed once indications are disabled
ftms_cp_ccc_cfg_changed(value) ==
    /\ ftms_cp_indicate_enabled' = (value = BT_GATT_CCC_INDICATE)
    /\ rsp_unsent' = (rsp_unsent /\ value = BT_GATT_CCC_INDICATE)

(***************************************************************************)
(* Grade limiter                                                           *)
(***************************************************************************)
Buckets == 0 .. (NUM_BUCKETS - 1)

\* The clock and the active-time counters are uint32_t; the bounded runs
\* below keep them far below 2^32, so their arithmetic never wraps.

\* the stored blobs under GRADE_LIMITS_NVS_ID: none, or one table
NoBlob == <<>>

DefaultLimits == [i \in Buckets |-> MAX_GRADE_INITIAL]

\* a variant that takes SPEED_MAX itself as inside the restricted range
speed_to_bucket_Inclusive(speed_mh) ==
    IF speed_mh < SPEED_MIN \/ speed_mh > SPEED_MAX THEN -1
    ELSE LET bucket == (speed_mh - SPEED_MIN) \div BUCKET_WIDTH
         IN IF bucket >= NUM_BUCKETS THEN NUM_BUCKETS - 1 ELSE bucket

\* static int speed_to_bucket(uint16_t speed_mh)
speed_to_bucket(speed_mh) ==
    IF speed_mh < SPEED_MIN \/ speed_mh >= SPEED_MAX THEN -1
    ELSE LET bucket == (speed_mh - SPEED_MIN) \div BUCKET_WIDTH
         IN IF bucket >= NUM_BUCKETS THEN NUM_BUCKETS - 1 ELSE bucket

\* static void load_limits_from_nvs(void): the table read back from
\* persistent storage, or the defaults when no table was ever stored
load_limits_from_nvs(blob) ==
    IF Len(blob) = 1 THEN blob[1] ELSE DefaultLimits

\* void grade_limiter_save(void); err: nvs_write fails
grade_limiter_save(table, err) ==
    nvs_grade_limits' = IF err THEN nvs_grade_limits ELSE <<table>>

\* void grade_limiter_init(void)
grade_limiter_init ==
    /\ active_time_seconds' = 0
    /\ last_decay_at_seconds' = 0
    /\ last_active_check_time' = uptime'
    /\ max_safe_grade' = load_limits_from_nvs(nvs_grade_limits)

\* a variant that compares with >= and so also reports an unchanged grade
\* as limited
ApplyLimit_Geq(requested_grade, limit) ==
    IF requested_grade >= limit
    THEN [applied |-> limit, limited |-> TRUE]
    ELSE [applied |-> requested_grade, limited |-> FALSE]

\* the clamp of grade_limiter_apply, lines 98-104
ApplyLimit(requested_grade, limit) ==
    IF requested_grade > limit
    THEN [applied |-> limit, limited |-> TRUE]
    ELSE [applied |-> requested_grade, limited |-> FALSE]

\* bool grade_limiter_apply(speed_mh, requested_grade, *applied_grade)
grade_limiter_apply(speed_mh, requested_grade) ==
    LET bucket == speed_to_bucket(speed_mh)
        r == IF bucket < 0
             THEN [applied |-> requested_grade, limited |-> FALSE]
             ELSE ApplyLimit(requested_grade, max_safe_grade[bucket])
    IN
    /\ current_speed' = speed_mh
    /\ current_applied_grade' = r.applied
    /\ apply_result' = [speed |-> speed_mh, requested |-> requested_grade,
                        applied |-> r.applied, limited |-> r.limited]

\* a variant without the 10% margin
LearnLimit_NoMargin(grade_at_release) ==
    IF grade_at_release < MIN_GRADE_LIMIT THEN MIN_GRADE_LIMIT
    ELSE grade_at_release

\* a variant without the 1% floor
LearnLimit_NoFloor(grade_at_release) ==
    ToInt16(CDiv(grade_at_release * LEARN_PERCENT, 100) % 65536)

\* the candidate limit of grade_limiter_learn: 10% below the grade at
\* release, as int16_t, not below 1%
LearnLimit(grade_at_release) ==
    LET new_limit == ToInt16(CDiv(grade_at_release * LEARN_PERCENT, 100) % 65536)
    IN IF new_limit < MIN_GRADE_LIMIT THEN MIN_GRADE_LIMIT ELSE new_limit

\* void grade_limiter_learn(speed_mh, grade_at_release)
grade_limiter_learn(speed_mh, grade_at_release, err) ==
    LET bucket == speed_to_bucket(speed_mh)
        new_limit == LearnLimit(grade_at_release)
    IN
    IF bucket >= 0 /\ new_limit < max_safe_grade[bucket] THEN
        /\ max_safe_grade' = [max_safe_grade EXCEPT ![bucket] = new_limit]
        /\ grade_limiter_save(max_safe_grade', err)
    ELSE UNCHANGED <<max_safe_grade, nvs_grade_limits>>

\* a variant without the cap at the initial ceiling
DecayLimit_NoCap(limit) ==
    IF limit < MAX_GRADE_INITIAL
    THEN ToInt16((limit + DECAY_STEP) % 65536)
    ELSE limit

\* one bucket of the decay loop
DecayLimit(limit) ==
    IF limit < MAX_GRADE_INITIAL
    THEN Min2(ToInt16((limit + DECAY_STEP) % 65536), MAX_GRADE_INITIAL)
    ELSE limit

\* void grade_limiter_decay(void), with active_time_seconds = active
grade_limiter_decay(active, err) ==
    IF active - last_decay_at_seconds < DECAY_INTERVAL_SECONDS THEN
        UNCHANGED <<last_decay_at_seconds, max_safe_grade, nvs_grade_limits>>
    ELSE
        /\ last_decay_at_seconds' = active
        /\ max_safe_grade' = [i \in Buckets |-> DecayLimit(max_safe_grade[i])]
        /\ IF \E i \in Buckets : max_safe_grade[i] < MAX_GRADE_INITIAL
           THEN grade_limiter_save(max_safe_grade', err)
           ELSE UNCHANGED nvs_grade_limits

\* void grade_limiter_update_active_time(bool is_active)
grade_limiter_update_active_time(is_active, err) ==
    LET elapsed_ms == uptime - last_active_check_time IN
    IF elapsed_ms >= ACTIVE_CHECK_INTERVAL_MS THEN
        /\ last_active_check_time' = uptime
        /\ IF is_active THEN
              /\ active_time_seconds' =
                    active_time_seconds + elapsed_ms \div 1000
              /\ grade_limiter_decay(active_time_seconds', err)
           ELSE UNCHANGED <<active_time_seconds, last_decay_at_seconds,
                            max_safe_grade, nvs_grade_limits>>
    ELSE UNCHANGED <<last_active_check_time, active_time_seconds,
                     last_decay_at_seconds, max_safe_grade, nvs_grade_limits>>

(***************************************************************************)
(* Sensors and their attribute tables                                      *)
(***************************************************************************)
Svc(uuid) == [kind |-> "svc", uuid |-> uuid, ntf |-> FALSE]

\* a characteristic with a CCC descriptor: declaration, value, descriptor
ChrcN(uuid) == <<[kind |-> "chrc", uuid |-> uuid, ntf |-> TRUE],
                 [kind |-> "val", uuid |-> uuid, ntf |-> FALSE],
                 [kind |-> "ccc", uuid |-> "CCC", ntf |-> FALSE]>>

\* a characteristic without notify/indicate: declaration, value
ChrcR(uuid) == <<[kind |-> "chrc", uuid |-> uuid, ntf |-> FALSE],
                 [kind |-> "val", uuid |-> uuid, ntf |-> FALSE]>>

\* the attribute table of each sensor; an attribute's handle is its index
DB(dev) ==
    CASE dev = "strap" ->
            <<Svc("HRS")>> \o ChrcN("2A37") \o ChrcR("2A38")
      [] dev = "power" ->
            <<Svc("CPS")>> \o ChrcN("2A63") \o ChrcR("2A65")
      [] dev = "trainer" ->
            <<Svc("FMS")>> \o ChrcR("2ACC") \o ChrcN("2AD2") \o ChrcN("2AD9")
            \o ChrcN("2AD3") \o ChrcN("2ADA")
      [] dev = "combo" ->
            <<Svc("HRS")>> \o ChrcN("2A37")
            \o <<Svc("CPS")>> \o ChrcN("2A63")
            \o <<Svc("FMS")>> \o ChrcN("2AD2") \o ChrcN("2AD3")
            \o ChrcN("2ADA") \o ChrcN("2AD9")
      [] dev = "combo2" ->
            <<Svc("HRS")>> \o ChrcN("2A37")
            \o <<Svc("CPS")>> \o ChrcN("2A63")
            \o <<Svc("FMS")>> \o ChrcN("2AD2") \o ChrcN("2AD9")
            \o ChrcN("2AD3") \o ChrcN("2ADA")
      [] OTHER -> <<>>

\* const struct bt_uuid *discover_services[]
discover_services == <<"HRS", "CPS", "FMS">>

discover_service_count == Len(discover_services)

\* what the host stack finds for a discovery request: the handle of the
\* first attribute at or after start_handle that matches it, or 0 (the
\* callback then gets attr = NULL)
FindAttr(db, params) ==
    LET match(h) ==
            CASE params.type = "primary" ->
                    db[h].kind = "svc" /\ db[h].uuid = params.uuid
              [] params.type = "characteristic" -> db[h].kind = "chrc"
              [] params.type = "descriptor" -> db[h].kind = "ccc"
              [] OTHER -> FALSE
        hs == {h \in 1 .. Len(db) : h >= params.start_handle /\ match(h)}
    IN IF hs = {} THEN 0 ELSE CHOOSE h \in hs : \A g \in hs : h <= g

(***************************************************************************)
(* Host stack calls                                                        *)
(***************************************************************************)
\* void start_scan(void): the host stack starts (or keeps) scanning
start_scan == scanning' = TRUE

(***************************************************************************)
(* GATT discovery                                                          *)
(***************************************************************************)
PrimaryParams(index) ==
    [type |-> "primary", uuid |-> discover_services[index + 1],
     start_handle |-> 1]

CharacteristicParams(start) ==
    [type |-> "characteristic", uuid |-> NoUuid, start_handle |-> start]

\* what one run of a discovery handler decided: the slot as it leaves it,
\* whether it called bt_gatt_discover, whether it calls start_scan when
\* that call fails or unconditionally, the subscription it registered with
\* the host stack (-1: none), and its last log line otherwise
Outcome(ns, call, scan_if_err, scan, sub, log) ==
    [slot |-> ns, call |-> call, scan_if_err |-> scan_if_err, scan |-> scan,
     sub |-> sub, log |-> log]

\* derr: bt_gatt_discover is rejected by the host stack
ApplyOutcome(slot, r, derr) ==
    /\ connections' = [connections EXCEPT ![slot] = r.slot]
    /\ discovering' = [discovering EXCEPT ![slot] = r.call /\ ~derr]
    /\ host_subs' = IF r.sub >= 0 THEN host_subs \cup {<<slot, r.sub>>}
                    ELSE host_subs
    /\ disc_log' = [disc_log EXCEPT ![slot] =
                       IF r.call THEN (IF derr THEN "rejected" ELSE "started")
                       ELSE r.log]
    /\ IF r.scan \/ (r.call /\ derr /\ r.scan_if_err)
       THEN start_scan
       ELSE UNCHANGED scanning

\* the attr == NULL branch of discover_func
DiscoverDone(s) ==
    IF s.discover_service_index < discover_service_count - 1
    THEN Outcome([s EXCEPT !.discover_service_index = @ + 1,
                           !.discover_params =
                               PrimaryParams(s.discover_service_index + 1)],
                 TRUE, FALSE, FALSE, -1, "")
    ELSE Outcome([s EXCEPT !.discover_params = ZeroDiscoverParams],
                 FALSE, FALSE, TRUE, -1, "complete")

\* a characteristic branch that records the Control Point handle only once
\* the subscription to its indications was accepted
DiscoverCharacteristic_HandleOnSubscribe(s, h, chrc, serr) ==
    LET idx == s.subscribe_count IN
    IF s.discover_service_index = 2 /\ chrc.uuid = "2AD9" THEN
        IF idx >= MAX_SUBSCRIPTIONS_PER_CONN
        THEN Outcome(s, FALSE, FALSE, FALSE, -1, "no_free_subscription")
        ELSE Outcome(
                [s EXCEPT !.ftms_control_point_handle =
                              IF serr = "ok" THEN h + 1 ELSE @,
                          !.subscribe_params[idx] =
                              [notify |-> "ftms_cp_indicate_func",
                               value |-> BT_GATT_CCC_INDICATE,
                               value_handle |-> h + 1,
                               ccc_handle |-> h + 2],
                          !.service_type[idx] = s.discover_service_index,
                          !.subscribe_count =
                              IF serr = "fail" THEN @ ELSE @ + 1,
                          !.discover_params = CharacteristicParams(h + 1)],
                TRUE, FALSE, FALSE, IF serr = "ok" THEN idx ELSE -1, "")
    ELSE IF ~chrc.ntf THEN
        Outcome([s EXCEPT !.discover_params.start_handle = h + 1],
                TRUE, TRUE, FALSE, -1, "")
    ELSE IF s.discover_service_index = 0 /\ chrc.uuid # "2A37" THEN
        Outcome([s EXCEPT !.discover_params = CharacteristicParams(h + 1)],
                TRUE, TRUE, FALSE, -1, "")
    ELSE
        Outcome([s EXCEPT !.discover_params =
                              [type |-> "descriptor", uuid |-> "CCC",
                               start_handle |-> h + 2],
                          !.temp_value_handle = h + 1],
                TRUE, FALSE, FALSE, -1, "")

\* the BT_GATT_DISCOVER_CHARACTERISTIC branch of discover_func
DiscoverCharacteristic(s, h, chrc, serr) ==
    LET idx == s.subscribe_count IN
    IF s.discover_service_index = 2 /\ chrc.uuid = "2AD9" THEN
        IF idx >= MAX_SUBSCRIPTIONS_PER_CONN
        THEN Outcome([s EXCEPT !.ftms_control_point_handle = h + 1],
                     FALSE, FALSE, FALSE, -1, "no_free_subscription")
        ELSE Outcome(
                [s EXCEPT !.ftms_control_point_handle = h + 1,
                          !.subscribe_params[idx] =
                              [notify |-> "ftms_cp_indicate_func",
                               value |-> BT_GATT_CCC_INDICATE,
                               value_handle |-> h + 1,
                               ccc_handle |-> h + 2],
                          !.service_type[idx] = s.discover_service_index,
                          !.subscribe_count =
                              IF serr = "fail" THEN @ ELSE @ + 1,
                          !.discover_params = CharacteristicParams(h + 1)],
                TRUE, FALSE, FALSE, IF serr = "ok" THEN idx ELSE -1, "")
    ELSE IF ~chrc.ntf THEN
        Outcome([s EXCEPT !.discover_params.start_handle = h + 1],
                TRUE, TRUE, FALSE, -1, "")
    ELSE IF s.discover_service_index = 0 /\ chrc.uuid # "2A37" THEN
        Outcome([s EXCEPT !.discover_params = CharacteristicParams(h + 1)],
                TRUE, TRUE, FALSE, -1, "")
    ELSE
        Outcome([s EXCEPT !.discover_params =
                              [type |-> "descriptor", uuid |-> "CCC",
                               start_handle |-> h + 2],
                          !.temp_value_handle = h + 1],
                TRUE, FALSE, FALSE, -1, "")

\* the last branch of discover_func: the CCC descriptor was found
DiscoverDescriptor(s, h, serr) ==
    LET idx == s.subscribe_count
        sub == [s EXCEPT !.subscribe_params[idx] =
                             [notify |-> "notify_func",
                              value |-> BT_GATT_CCC_NOTIFY,
                              value_handle |-> s.temp_value_handle,
                              ccc_handle |-> h],
                         !.service_type[idx] = s.discover_service_index,
                         !.subscribe_count =
                             IF serr = "ok" THEN @ + 1 ELSE @]
        reg == IF serr = "ok" THEN idx ELSE -1
    IN
    IF idx >= MAX_SUBSCRIPTIONS_PER_CONN THEN
        Outcome(s, FALSE, FALSE, FALSE, -1, "no_free_subscription")
    ELSE IF s.discover_service_index = 2 THEN
        Outcome([sub EXCEPT !.discover_params = CharacteristicParams(h + 1)],
                TRUE, FALSE, FALSE, reg, "")
    ELSE IF s.discover_service_index < discover_service_count - 1 THEN
        Outcome([sub EXCEPT !.discover_service_index = @ + 1,
                            !.discover_params =
                                PrimaryParams(s.discover_service_index + 1)],
                TRUE, TRUE, FALSE, reg, "")
    ELSE Outcome(sub, FALSE, FALSE, TRUE, reg, "complete")

\* uint8_t discover_func(conn, attr, params) for the outstanding request of
\* the slot; serr: the result of bt_gatt_subscribe
discover_func(slot, derr, serr) ==
    LET s == connections[slot]
        db == DB(s.conn)
        h == FindAttr(db, s.discover_params)
        r == IF h = 0 THEN DiscoverDone(s)
             ELSE IF s.discover_params.type = "primary" THEN
                 Outcome([s EXCEPT !.discover_params =
                                       CharacteristicParams(h + 1)],
                         TRUE, FALSE, FALSE, -1, "")
             ELSE IF s.discover_params.type = "characteristic" THEN
                 DiscoverCharacteristic(s, h, db[h], serr)
             ELSE DiscoverDescriptor(s, h, serr)
    IN ApplyOutcome(slot, r, derr)

\* a start that issues its request on the first slot whatever the slot of
\* the connection
start_discovery_FirstSlot(slot, s, derr) ==
    ApplyOutcome(0,
                 Outcome([s EXCEPT !.subscribe_count = 0,
                                   !.discover_service_index = 0,
                                   !.discover_params = PrimaryParams(0)],
                         TRUE, TRUE, FALSE, -1, ""),
                 derr)

\* void start_discovery(conn, slot_idx), on the slot record s
start_discovery(slot, s, derr) ==
    ApplyOutcome(slot,
                 Outcome([s EXCEPT !.subscribe_count = 0,
                                   !.discover_service_index = 0,
                                   !.discover_params = PrimaryParams(0)],
                         TRUE, TRUE, FALSE, -1, ""),
                 derr)

(***************************************************************************)
(* Data-plane relay                                                        *)
(***************************************************************************)
\* bit k of x is set
Bit(x, k) == (x \div (2 ^ k)) % 2 = 1

\* the uint16_t read at byte offset off (from 0) of a notification
U16At(data, off) == LE16(data[off + 1], data[off + 2])

ZeroCpCache ==
    [power |-> 0, cadence |-> 0, timestamp |-> 0, last_crank_revs |-> 0,
     last_crank_time |-> 0, last_crank_change_time |-> 0, valid |-> FALSE]

NoMeasurements ==
    [hr |-> <<>>, cp |-> <<>>, csc |-> <<>>, ftms |-> <<>>,
     training_status |-> <<>>, machine_status |-> <<>>]

Relayed(attr, data) == [attr |-> attr, data |-> data]

\* (rev_delta * 122880UL) / time_delta as the build for the nRF52840
\* computes it, in 32-bit unsigned arithmetic, then capped at 65535 as the
\* cast of line 172 does.  122880 = 15 * 2^13, so the product modulo 2^32 is
\* ((rev_delta * 15) mod 2^19) * 2^13; the quotient is taken in two steps to
\* keep every intermediate value small.
CadenceCalc(rev_delta, time_delta) ==
    LET a == ((rev_delta * 15) % 524288) * 64
        qa == a \div time_delta
        ra == a % time_delta
    IN IF qa >= 512 THEN 65535
       ELSE Min2(qa * 128 + (ra * 128) \div time_delta, 65535)

\* a crank update whose timeout needs more than 4000 ms
CrankUpdate_Strict(c, crank_revs, crank_time, now) ==
    LET rev_delta == (crank_revs - c.last_crank_revs) % 65536
        time_delta == (crank_time - c.last_crank_time) % 65536
        c1 == IF ~c.valid THEN [c EXCEPT !.last_crank_change_time = now]
              ELSE IF rev_delta > 0 THEN
                  [c EXCEPT !.cadence = IF time_delta > 0
                                        THEN CadenceCalc(rev_delta, time_delta)
                                        ELSE @,
                            !.last_crank_change_time = now]
              ELSE IF now - c.last_crank_change_time > 4000
                   THEN [c EXCEPT !.cadence = 0]
                   ELSE c
    IN [c1 EXCEPT !.last_crank_revs = crank_revs,
                  !.last_crank_time = crank_time,
                  !.valid = TRUE]

\* the crank part of the Cycling Power branch: the cache after a measurement
\* with crank data (revolutions, event time)
CrankUpdate(c, crank_revs, crank_time, now) ==
    LET rev_delta == (crank_revs - c.last_crank_revs) % 65536
        time_delta == (crank_time - c.last_crank_time) % 65536
        c1 == IF ~c.valid THEN [c EXCEPT !.last_crank_change_time = now]
              ELSE IF rev_delta > 0 THEN
                  [c EXCEPT !.cadence = IF time_delta > 0
                                        THEN CadenceCalc(rev_delta, time_delta)
                                        ELSE @,
                            !.last_crank_change_time = now]
              ELSE IF now - c.last_crank_change_time >= 4000
                   THEN [c EXCEPT !.cadence = 0]
                   ELSE c
    IN [c1 EXCEPT !.last_crank_revs = crank_revs,
                  !.last_crank_time = crank_time,
                  !.valid = TRUE]

\* the cache after a Cycling Power measurement
CpCacheUpdate(c, data, now) ==
    IF Len(data) < 4 THEN c
    ELSE LET flags == U16At(data, 0)
             c0 == [c EXCEPT !.power = ToInt16(U16At(data, 2)),
                             !.timestamp = now]
             offset == IF Bit(flags, 0) /\ Len(data) > 4 THEN 5 ELSE 4
         IN IF Bit(flags, 5) /\ Len(data) >= offset + 4
            THEN CrankUpdate(c0, U16At(data, offset), U16At(data, offset + 2), now)
            ELSE c0

\* the byte offset of the Instantaneous Power field of an Indoor Bike Data
\* notification, or -1
PowerOffset(data) ==
    IF Len(data) < 2 THEN -1
    ELSE LET flags == U16At(data, 0)
             offset == 4 + (IF Bit(flags, 1) THEN 2 ELSE 0)
                         + (IF Bit(flags, 2) THEN 2 ELSE 0)
                         + (IF Bit(flags, 3) THEN 2 ELSE 0)
                         + (IF Bit(flags, 4) THEN 3 ELSE 0)
                         + (IF Bit(flags, 5) THEN 2 ELSE 0)
         IN IF Bit(flags, 6) THEN offset ELSE -1

\* a variant that injects the cached power however old it is
InjectPower_NoTimeout(c, data, now) ==
    LET power_offset == PowerOffset(data)
    IN IF Len(data) >= 2 /\ c.valid /\ c.power >= 0 /\ power_offset >= 0
          /\ power_offset + 2 <= Len(data)
       THEN [data EXCEPT ![power_offset + 1] = Lo8(c.power),
                         ![power_offset + 2] = Hi8(c.power)]
       ELSE data

\* the Indoor Bike Data notification as republished: the power of the power
\* meter replaces the trainer's while the power meter is active
InjectPower(c, data, now) ==
    LET cp_active == Len(data) >= 2 /\ c.valid
                     /\ now - c.timestamp < CP_TIMEOUT_MS
        power_offset == PowerOffset(data)
    IN IF cp_active /\ c.power >= 0 /\ power_offset >= 0
          /\ power_offset + 2 <= Len(data)
       THEN [data EXCEPT ![power_offset + 1] = Lo8(c.power),
                         ![power_offset + 2] = Hi8(c.power)]
       ELSE data

\* uint8_t notify_func(conn, params, data, length) with data # NULL, for the
\* subscription sub_idx of the slot
notify_func(slot, sub_idx, data) ==
    LET s == connections[slot]
        known == s.conn # NoConn /\ sub_idx < s.subscribe_count
        svc_type == s.service_type[sub_idx]
        length == Len(data)
        hr_bad == length < 2 \/ (Bit(data[1], 0) /\ length < 3)
        cache == CpCacheUpdate(cached_cp_data, data, uptime)
    IN
    IF ~known \/ (svc_type = 0 /\ hr_bad) THEN
        /\ notified' = <<>>
        /\ UNCHANGED <<cached_cp_data, last_cp_data_time, total_rx_count,
                       measurement>>
    ELSE
        /\ total_rx_count' = total_rx_count + 1
        /\ cached_cp_data' = IF svc_type = 1 THEN cache ELSE cached_cp_data
        /\ last_cp_data_time' = IF svc_type = 1 THEN uptime
                                ELSE last_cp_data_time
        /\ notified' =
              CASE svc_type = 0 -> <<Relayed("hr_svc.attrs[1]", data)>>
                [] svc_type = 1 ->
                      <<Relayed("cp_svc.attrs[1]", data)>>
                      \o (IF cache.valid
                          THEN <<Relayed("csc_svc.attrs[1]",
                                         <<2, Lo8(cache.last_crank_revs),
                                           Hi8(cache.last_crank_revs),
                                           Lo8(cache.last_crank_time),
                                           Hi8(cache.last_crank_time)>>)>>
                          ELSE <<>>)
                [] svc_type = 2 ->
                      <<Relayed("ftms_svc.attrs[1]",
                                InjectPower(cached_cp_data, data, uptime))>>
                [] svc_type = 3 -> <<Relayed("ftms_svc.attrs[3]", data)>>
                [] svc_type = 4 -> <<Relayed("ftms_svc.attrs[5]", data)>>
                [] OTHER -> <<>>
        /\ measurement' =
              CASE svc_type = 0 -> [measurement EXCEPT !.hr = data]
                [] svc_type = 1 ->
                      [measurement EXCEPT
                          !.cp = data,
                          !.csc = IF cache.valid THEN notified'[2].data ELSE @]
                [] svc_type = 2 ->
                      [measurement EXCEPT !.ftms = notified'[1].data]
                [] svc_type = 3 ->
                      [measurement EXCEPT !.training_status = data]
                [] svc_type = 4 ->
                      [measurement EXCEPT !.machine_status = data]
                [] OTHER -> measurement

(***************************************************************************)
(* Device manager                                                          *)
(***************************************************************************)
NoWork == -1

SavedIdx == 0 .. (MAX_SAVED_DEVICES - 1)

EmptySaved == [valid |-> FALSE, addr |-> NoConn, name |-> "", svc_mask |-> 0]

\* bt_addr_le_to_str: the address as a string
AddrStr(addr) == addr

\* strncmp(name, DEVICE_NAME_PREFIX, strlen(DEVICE_NAME_PREFIX)) == 0
HasOwnPrefix(name) == name \in {"Z-Relay", "Z-Relay-1A2B"}

\* bitwise or of two service masks (3 bits)
MaskOr(a, b) ==
    (IF Bit(a, 0) \/ Bit(b, 0) THEN 1 ELSE 0)
    + (IF Bit(a, 1) \/ Bit(b, 1) THEN 2 ELSE 0)
    + (IF Bit(a, 2) \/ Bit(b, 2) THEN 4 ELSE 0)

\* eir_found over the 16-bit service UUIDs of an advertisement
SvcMask(uuids) ==
    (IF "HRS" \in uuids THEN 1 ELSE 0)
    + (IF "CPS" \in uuids THEN 2 ELSE 0)
    + (IF "FMS" \in uuids THEN 4 ELSE 0)

\* the position of the first list entry with the address, or 0
IdxOf(list, addr) ==
    LET is == {i \in 1 .. Len(list) : list[i].addr = addr}
    IN IF is = {} THEN 0 ELSE CHOOSE i \in is : \A j \in is : i <= j

\* the first slot with the connection (-1: none); NoConn finds a free slot
SlotOf(conns, conn) ==
    LET is == {i \in Slots : conns[i].conn = conn}
    IN IF is = {} THEN -1 ELSE CHOOSE i \in is : \A j \in is : i <= j

\* a lookup that ignores the valid flag of the records
nvs_is_device_saved_NoValid(addr) ==
    \E i \in SavedIdx : saved_devices[i].addr = addr

\* bool nvs_is_device_saved(addr), storage initialised
nvs_is_device_saved(addr) ==
    \E i \in SavedIdx : saved_devices[i].valid /\ saved_devices[i].addr = addr

\* a save that always takes the first empty slot
SavedAfter_Append(addr, name, svc_mask) ==
    LET empty == {i \in SavedIdx : ~saved_devices[i].valid}
        slot == CHOOSE i \in empty : \A j \in empty : i <= j
    IN IF empty = {} THEN saved_devices
       ELSE [saved_devices EXCEPT ![slot] =
                [valid |-> TRUE, addr |-> addr, name |-> name,
                 svc_mask |-> svc_mask]]

\* a save that overwrites the first record when no slot is free
SavedAfter_Evict(addr, name, svc_mask) ==
    LET cand == {i \in SavedIdx : ~saved_devices[i].valid
                                  \/ saved_devices[i].addr = addr}
        slot == IF cand = {} THEN 0
                ELSE CHOOSE i \in cand : \A j \in cand : i <= j
    IN [saved_devices EXCEPT ![slot] =
           [valid |-> TRUE, addr |-> addr, name |-> name,
            svc_mask |-> svc_mask]]

\* int nvs_save_device(addr, name, svc_mask): the table afterwards
SavedAfter(addr, name, svc_mask) ==
    LET same == {i \in SavedIdx : saved_devices[i].valid
                                  /\ saved_devices[i].addr = addr}
        empty == {i \in SavedIdx : ~saved_devices[i].valid}
        cand == IF same # {} THEN same ELSE empty
        slot == CHOOSE i \in cand : \A j \in cand : i <= j
    IN IF cand = {} THEN saved_devices
       ELSE [saved_devices EXCEPT ![slot] =
                [valid |-> TRUE, addr |-> addr, name |-> name,
                 svc_mask |-> svc_mask]]

\* nvs_save_device returns 0: a slot was found and nvs_write succeeded
SaveOk(addr, werr) ==
    /\ ~werr
    /\ \E i \in SavedIdx :
          ~saved_devices[i].valid \/ saved_devices[i].addr = addr

\* the return value of nvs_save_device
nvs_save_device_ret(addr, werr) ==
    IF ~\E i \in SavedIdx :
           ~saved_devices[i].valid \/ saved_devices[i].addr = addr
    THEN "ENOMEM"
    ELSE IF werr THEN "EIO" ELSE "OK"

\* void save_connected_device(conn): the device list, the saved table and
\* the value nvs_save_device returned last
save_connected_device(list, conn, werr) ==
    LET i == IdxOf(list, conn) IN
    IF i # 0 /\ ~list[i].is_saved THEN
        /\ saved_devices' = SavedAfter(conn, list[i].name, list[i].svc_mask)
        /\ save_err' = nvs_save_device_ret(conn, werr)
        /\ device_list' = [list EXCEPT ![i].is_saved = SaveOk(conn, werr)]
    ELSE
        /\ saved_devices' = saved_devices
        /\ save_err' = save_err
        /\ device_list' = list

\* void cancel_connection_timeout(conn)
cancel_connection_timeout(conn) ==
    IF pending_conn # NoConn /\ pending_conn = conn
    THEN /\ conn_timeout_work' = NoWork
         /\ pending_conn' = NoConn
    ELSE UNCHANGED <<conn_timeout_work, pending_conn>>

\* static void conn_timeout_handler(work), run when the delay has passed;
\* err: bt_conn_disconnect is rejected by the host stack
conn_timeout_handler(err) ==
    /\ conn_timeout_work' = NoWork
    /\ IF pending_conn # NoConn THEN
          IF err THEN
              /\ pending_conn' = NoConn
              /\ start_scan
              /\ UNCHANGED conn_state
          ELSE
              /\ conn_state' = [conn_state EXCEPT ![pending_conn] = "cancelling"]
              /\ UNCHANGED <<pending_conn, scanning>>
       ELSE UNCHANGED <<pending_conn, scanning, conn_state>>

\* a slot reset that leaves the Control Point handle
ResetSlot_KeepHandle(s) ==
    [s EXCEPT !.subscribe_params = [j \in SubIdx |-> ZeroSubscribeParams],
              !.service_type = [j \in SubIdx |-> 0],
              !.subscribe_count = 0,
              !.discover_service_index = 0,
              !.temp_value_handle = 0]

\* the slot reset of device_found before a connection attempt
ResetSlot(s) ==
    [s EXCEPT !.subscribe_params = [j \in SubIdx |-> ZeroSubscribeParams],
              !.service_type = [j \in SubIdx |-> 0],
              !.subscribe_count = 0,
              !.discover_service_index = 0,
              !.ftms_control_point_handle = 0,
              !.temp_value_handle = 0]

\* a clean-up loop that does not look at the connection slots
AgeList_NoRefresh(list, conns, now) ==
    SelectSeq(list, LAMBDA d : ~(now - d.last_seen > 10000))

\* the clean-up loop of device_found: a connected device is refreshed, a
\* device not seen for more than 10 seconds is removed
AgeList(list, conns, now) ==
    LET is_connected(d) == \E i \in Slots : conns[i].conn = d.addr
        refreshed == [k \in 1 .. Len(list) |->
                         IF is_connected(list[k])
                         THEN [list[k] EXCEPT !.last_seen = now]
                         ELSE list[k]]
        keep(d) == ~(now - d.last_seen > 10000)
    IN SelectSeq(refreshed, keep)

\* the device list after the tracking part of device_found
TrackDevice(list, adv, now) ==
    LET i == IdxOf(list, adv.addr)
        mask == SvcMask(adv.uuids)
        is_saved == nvs_is_device_saved(adv.addr)
    IN IF i # 0 THEN
           [list EXCEPT ![i] =
               [@ EXCEPT !.name = IF adv.name # "" THEN adv.name ELSE @,
                         !.last_seen = now,
                         !.svc_mask = MaskOr(@, mask),
                         !.rssi = adv.rssi,
                         !.is_saved = is_saved]]
       ELSE Append(list,
                   [addr |-> adv.addr,
                    name |-> IF adv.name # "" THEN adv.name
                             ELSE AddrStr(adv.addr),
                    svc_mask |-> mask,
                    last_seen |-> now,
                    is_saved |-> is_saved,
                    rssi |-> adv.rssi])

\* a search that hands out slot 0 when no slot is free
FreeSlot_Steal(conns) ==
    IF \E i \in Slots : conns[i].conn = NoConn
    THEN CHOOSE i \in Slots : /\ conns[i].conn = NoConn
                              /\ \A j \in Slots : conns[j].conn = NoConn => i <= j
    ELSE 0

\* device_found: the first slot without a connection, or -1
FreeSlot(conns) == SlotOf(conns, NoConn)

\* a host stack that accepts every request
CreateRejected_Never(addr) == FALSE

\* bt_conn_le_create is rejected while the host stack is already initiating
\* a connection or holds a connection object for the address
CreateRejected(addr) ==
    \/ conn_state[addr] # "idle"
    \/ \E a \in DOMAIN conn_state : conn_state[a] \in {"connecting", "cancelling"}

\* a record that may be created regardless of the store and the window
MayTrack_Always(found, is_saved, svc_mask) == TRUE

\* device_found keeps tracking a device that has a record; it creates a
\* record only for a saved device or, inside the scan window, for a device
\* that advertises a service of interest
MayTrack(found, is_saved, svc_mask) ==
    \/ found
    \/ is_saved
    \/ (scan_window_active /\ svc_mask # 0)

\* a decision to connect that does not look at the slots' connections
ConnectRequested_NoSlotCheck(adv) ==
    LET i == IdxOf(device_list, adv.addr)
        tracked == MayTrack(i # 0, nvs_is_device_saved(adv.addr),
                            SvcMask(adv.uuids))
        list == TrackDevice(device_list, adv, uptime)
        d == list[IdxOf(list, adv.addr)]
    IN /\ ~HasOwnPrefix(adv.name)
       /\ tracked
       /\ d.svc_mask # 0
       /\ d.name # ""
       /\ d.name # AddrStr(adv.addr)
       /\ (d.is_saved \/ scan_window_active)
       /\ FreeSlot(connections) >= 0

\* device_found, run for the report, reaches its call of bt_conn_le_create
\* when the scan can be stopped: the device is tracked, is named, advertises
\* a service of interest, is in no slot, is saved or sighted inside the scan
\* window, and a slot is free
ConnectRequested(adv) ==
    LET i == IdxOf(device_list, adv.addr)
        tracked == MayTrack(i # 0, nvs_is_device_saved(adv.addr),
                            SvcMask(adv.uuids))
        list == TrackDevice(device_list, adv, uptime)
        d == list[IdxOf(list, adv.addr)]
    IN /\ ~HasOwnPrefix(adv.name)
       /\ tracked
       /\ d.svc_mask # 0
       /\ d.name # ""
       /\ d.name # AddrStr(adv.addr)
       /\ SlotOf(connections, adv.addr) = -1
       /\ (d.is_saved \/ scan_window_active)
       /\ FreeSlot(connections) >= 0

\* static void device_found(addr, rssi, type, ad); stop_err: bt_le_scan_stop
\* fails; create_err: bt_conn_le_create fails
device_found(adv, stop_err, create_err) ==
    LET now == uptime
        i == IdxOf(device_list, adv.addr)
        tracked == MayTrack(i # 0, nvs_is_device_saved(adv.addr),
                            SvcMask(adv.uuids))
        list == TrackDevice(device_list, adv, now)
        d == list[IdxOf(list, adv.addr)]
        wants == d.svc_mask # 0 /\ d.name # "" /\ d.name # AddrStr(adv.addr)
        already == SlotOf(connections, adv.addr) # -1
        free_slot == FreeSlot(connections)
        attempt == ConnectRequested(adv)
        failed == create_err \/ CreateRejected(adv.addr)
        conns == IF ~attempt THEN connections
                 ELSE [connections EXCEPT ![free_slot] =
                          [ResetSlot(@) EXCEPT !.conn =
                              IF stop_err \/ failed THEN NoConn ELSE adv.addr]]
    IN
    IF HasOwnPrefix(adv.name) \/ ~tracked THEN
        UNCHANGED <<device_list, connections, pending_conn,
                    conn_timeout_work, scanning, conn_state>>
    ELSE IF wants /\ ~already /\ ~d.is_saved /\ ~scan_window_active THEN
        /\ device_list' = list
        /\ UNCHANGED <<connections, pending_conn, conn_timeout_work,
                       scanning, conn_state>>
    ELSE
        /\ connections' = conns
        /\ device_list' = AgeList(list, conns, now)
        /\ IF attempt /\ ~stop_err /\ ~failed THEN
              /\ pending_conn' = adv.addr
              /\ conn_timeout_work' = IF conn_timeout_work = NoWork
                                      THEN now + 10000 ELSE conn_timeout_work
              /\ conn_state' = [conn_state EXCEPT ![adv.addr] = "connecting"]
              /\ scanning' = FALSE
           ELSE
              \* a failed create stops the scan and starts it again
              UNCHANGED <<pending_conn, conn_timeout_work, conn_state,
                          scanning>>

\* static void connected(conn, conn_err); derr: bt_gatt_discover is
\* rejected; werr: nvs_write fails
connected(conn, conn_err, derr, werr) ==
    LET slot_idx == SlotOf(connections, conn)
        i == IdxOf(device_list, conn)
    IN
    IF slot_idx = -1 THEN
        UNCHANGED <<connections, device_list, saved_devices, save_err, pending_conn,
                    conn_timeout_work, scanning, discovering, host_subs,
                    disc_log>>
    ELSE IF conn_err THEN
        /\ cancel_connection_timeout(conn)
        /\ connections' = [connections EXCEPT ![slot_idx].conn = NoConn]
        /\ start_scan
        /\ UNCHANGED <<device_list, saved_devices, save_err, discovering, host_subs,
                       disc_log>>
    ELSE
        /\ cancel_connection_timeout(conn)
        /\ save_connected_device(device_list, conn, werr)
        /\ start_discovery(slot_idx,
                           [connections[slot_idx] EXCEPT !.rssi =
                               IF i # 0 THEN device_list[i].rssi ELSE 0],
                           derr)

\* a removal that leaves the list as it is
RemoveAt_Keep(list, i) == list

\* sys_slist_find_and_remove of the record at position i (0: no record)
RemoveAt(list, i) ==
    IF i = 0 THEN list
    ELSE SubSeq(list, 1, i - 1) \o SubSeq(list, i + 1, Len(list))

\* void start_advertising(device_name); adv_err: bt_le_adv_start fails.  The
\* scan is stopped, advertising is stopped and started again, and the scan
\* is started whether or not advertising started
start_advertising(adv_err) ==
    /\ advertising' = ~adv_err
    /\ start_scan

\* static void disconnected(conn, reason); adv_err: bt_le_adv_start fails
disconnected(conn, adv_err) ==
    LET slot_idx == SlotOf(connections, conn)
        i == IdxOf(device_list, conn)
    IN
    /\ device_list' = RemoveAt(device_list, i)
    /\ cancel_connection_timeout(conn)
    /\ IF slot_idx # -1 THEN
          /\ connections' = [connections EXCEPT ![slot_idx].subscribe_count = 0,
                                                ![slot_idx].conn = NoConn]
          /\ start_scan
          /\ UNCHANGED <<peripheral_conn, advertising>>
       ELSE
          /\ peripheral_conn' = IF peripheral_conn = conn THEN NoConn
                                ELSE peripheral_conn
          /\ start_advertising(adv_err)
          /\ UNCHANGED connections

\* static void scan_window_timeout_handler(work)
scan_window_timeout_handler ==
    /\ scan_window_timeout' = NoWork
    /\ scan_window_active' = FALSE
    /\ start_scan

\* void start_scan_window(duration_ms)
start_scan_window(duration_ms) ==
    /\ scan_window_active' = TRUE
    /\ scan_window_timeout' = uptime + duration_ms
    /\ start_scan

\* void disconnect_all_devices(void): bt_conn_disconnect on every occupied
\* slot; the host stack tears an established link down and cancels an
\* attempt in progress, and rejects the request for any other connection
disconnect_all_devices ==
    conn_state' =
        [a \in DOMAIN conn_state |->
            IF \E i \in Slots : connections[i].conn = a THEN
                CASE conn_state[a] = "connected" -> "disconnecting"
                  [] conn_state[a] = "connecting" -> "cancelling"
                  [] OTHER -> conn_state[a]
            ELSE conn_state[a]]

\* int nvs_clear_all_devices(void), storage initialised
nvs_clear_all_devices ==
    saved_devices' = [i \in SavedIdx |-> [saved_devices[i] EXCEPT !.valid = FALSE]]

\* int nvs_load_devices(devices, max_devices): the records copied out
nvs_load_devices(table, max_devices) ==
    LET n == Min2(MAX_SAVED_DEVICES, max_devices)
        F[i \in 0 .. n] ==
            IF i = 0 THEN <<>>
            ELSE IF table[i - 1].valid THEN Append(F[i - 1], table[i - 1])
            ELSE F[i - 1]
    IN F[n]

\* static void long_press_timeout_handler(work), the button still pressed
long_press_timeout_handler ==
    /\ disconnect_all_devices
    /\ nvs_clear_all_devices
    /\ start_scan_window(5 * 60 * 1000)

(***************************************************************************)
(* State after main() has initialised the modules                          *)
(***************************************************************************)
\* the sensors and other devices nearby, and the companion app
Addrs == {"strap", "power", "trainer", "combo", "combo2", "phone", "relay",
          Zwift}

\* what each device advertises
AdvName(dev) ==
    CASE dev = "strap" -> "HRM"
      [] dev = "power" -> "Assioma"
      [] dev = "trainer" -> "KICKR"
      [] dev = "combo" -> "Tacx"
      [] dev = "combo2" -> "Elite"
      [] dev = "relay" -> "Z-Relay-1A2B"
      [] OTHER -> "Phone"

AdvUuids(dev) ==
    CASE dev = "strap" -> {"HRS"}
      [] dev = "power" -> {"CPS"}
      [] dev = "trainer" -> {"FMS"}
      [] dev \in {"combo", "combo2", "relay"} -> {"HRS", "CPS", "FMS"}
      [] OTHER -> {}

\* the saved-device table holding the sensors paired earlier, in order
SavedTable(devs) ==
    [i \in SavedIdx |->
        IF i < Len(devs)
        THEN [valid |-> TRUE, addr |-> devs[i + 1],
              name |-> AdvName(devs[i + 1]),
              svc_mask |-> SvcMask(AdvUuids(devs[i + 1]))]
        ELSE EmptySaved]

\* device_manager_init and start_advertising have run: nothing tracked,
\* nothing pending, scanning; paired: the sensors saved by earlier runs;
\* present: the devices advertising nearby; linked: the sensors connected
InitDevState(paired, present, linked) ==
    /\ device_list = <<>>
    /\ pending_conn = NoConn
    /\ conn_timeout_work = NoWork
    /\ scan_window_active = FALSE
    /\ scan_window_timeout = NoWork
    /\ saved_devices = SavedTable(paired)
    /\ save_err = "none"
    /\ conn_state = [a \in Addrs |-> IF a \in linked THEN "connected"
                                     ELSE "idle"]
    /\ scanning = TRUE
    /\ discovering = [i \in Slots |-> FALSE]
    /\ host_subs = {}
    /\ disc_log = [i \in Slots |-> "none"]
    /\ in_range = present
    /\ advertising = (Zwift \notin linked)
    /\ cached_cp_data = ZeroCpCache
    /\ last_cp_data_time = 0
    /\ total_rx_count = 0
    /\ measurement = NoMeasurements
    /\ notified = <<>>
    /\ notify_src = NoUuid

(***************************************************************************)
(* Specification of the Control Point translator: the companion app writes *)
(* commands, the host stack completes forwarded writes, the trainer        *)
(* answers accepted writes, the work queue and the indication complete.    *)
(***************************************************************************)
\* a slot holding a trainer whose Control Point handle was recorded
TrainerAt == [EmptySlot EXCEPT !.conn = "trainer",
                               !.subscribe_count = 1,
                               !.service_type = [j \in SubIdx |-> IF j = 0 THEN 2 ELSE 0],
                               !.discover_service_index = 2,
                               !.ftms_control_point_handle = 42]

\* a slot holding a heart-rate strap
StrapAt == [EmptySlot EXCEPT !.conn = "strap", !.subscribe_count = 1]

CPSlotTables ==
    {[i \in Slots |-> IF i = 0 THEN StrapAt ELSE IF i = 1 THEN TrainerAt ELSE EmptySlot],
     [i \in Slots |-> IF i = 0 THEN StrapAt ELSE EmptySlot]}

\* the translator's statics after ftms_control_point_init
InitCPState ==
    /\ peripheral_conn = NoConn
    /\ ftms_cp_indicate_enabled = FALSE
    /\ ftms_cp_indicating = FALSE
    /\ last_cmd_was_converted = FALSE
    /\ ftms_cp_response = <<>>
    /\ ftms_cp_write_buf = <<>>
    /\ ftms_cp_write_busy = FALSE
    /\ ftms_cp_response_work = FALSE
    /\ cp_write_ret = 0
    /\ cp_write_log = "none"
    /\ sim_event = NoEvent
    /\ gatt_writes = <<>>
    /\ trainer_rsp = <<>>
    /\ indications = <<>>
    /\ rsp_origin = FALSE
    /\ rsp_unsent = FALSE

\* the limiter after grade_limiter_learn(2000, 334) lowered the ceiling of
\* the bucket of 2000 m/h to 300 and grade_limiter_apply saw that speed
LimitedTable ==
    [i \in Buckets |-> IF i = speed_to_bucket(2000)
                       THEN 300 ELSE MAX_GRADE_INITIAL]

InitGLLimited ==
    /\ max_safe_grade = LimitedTable
    /\ nvs_grade_limits = <<LimitedTable>>
    /\ current_applied_grade = 0
    /\ current_speed = 2000
    /\ active_time_seconds = 0
    /\ last_active_check_time = 0
    /\ last_decay_at_seconds = 0
    /\ apply_result = [speed |-> 2000, requested |-> 0,
                       applied |-> 0, limited |-> FALSE]
    /\ uptime = 0
    /\ ticks = 0

InitCP ==
    /\ connections \in CPSlotTables
    /\ InitCPState
    /\ InitGLLimited
    /\ InitDevState(<<>>, {},
                    ({connections[i].conn : i \in Slots} \ {NoConn})
                        \cup {Zwift})

notCP == <<connections, glVars, dmVars, hostVars, relayVars>>

\* the host stack delivers one write of the companion to the Control Point
CpWrite(cmd, offset, err) ==
    /\ ftms_control_point_write(Zwift, cmd, offset, err)
    /\ UNCHANGED <<ftms_cp_indicate_enabled, ftms_cp_indicating,
                   ftms_cp_response, ftms_cp_response_work, trainer_rsp,
                   indications, rsp_origin, rsp_unsent>>
    /\ UNCHANGED notCP

CompanionWrite ==
    /\ Len(gatt_writes) + Len(trainer_rsp) < MaxPending
    /\ \E cmd \in CompanionWrites, offset \in {0, 1}, err \in BOOLEAN :
          CpWrite(cmd, offset, err)

WriteComplete ==
    /\ \E err \in BOOLEAN : ftms_cp_write_cb(err)
    /\ UNCHANGED <<peripheral_conn, ftms_cp_indicate_enabled,
                   ftms_cp_indicating, last_cmd_was_converted,
                   ftms_cp_response, ftms_cp_write_buf,
                   ftms_cp_response_work, cp_write_ret, cp_write_log,
                   sim_event, indications, rsp_origin, rsp_unsent>>
    /\ UNCHANGED notCP

ResultCodes == {1}

\* the trainer indicates its response to the oldest accepted write
TrainerResponse ==
    /\ trainer_rsp # <<>>
    /\ \E result \in ResultCodes :
          ftms_cp_indicate_func(
              <<FTMS_CP_RESPONSE_CODE, Head(trainer_rsp).opcode, result>>,
              Head(trainer_rsp).translated)
    /\ trainer_rsp' = Tail(trainer_rsp)
    /\ UNCHANGED <<peripheral_conn, ftms_cp_indicate_enabled,
                   ftms_cp_indicating, ftms_cp_write_buf, ftms_cp_write_busy,
                   cp_write_ret, cp_write_log, sim_event, gatt_writes,
                   indications>>
    /\ UNCHANGED notCP

ResponseWork ==
    /\ \E err \in BOOLEAN : ftms_cp_response_work_handler(err)
    /\ UNCHANGED <<peripheral_conn, ftms_cp_indicate_enabled,
                   last_cmd_was_converted, ftms_cp_response,
                   ftms_cp_write_buf, ftms_cp_write_busy, cp_write_ret,
                   cp_write_log, sim_event, gatt_writes, trainer_rsp,
                   rsp_origin>>
    /\ UNCHANGED notCP

IndicateComplete ==
    /\ ftms_cp_indicate_destroy
    /\ UNCHANGED <<peripheral_conn, ftms_cp_indicate_enabled,
                   last_cmd_was_converted, ftms_cp_response,
                   ftms_cp_write_buf, ftms_cp_write_busy,
                   ftms_cp_response_work, cp_write_ret, cp_write_log,
                   sim_event, gatt_writes, trainer_rsp, rsp_origin,
                   rsp_unsent>>
    /\ UNCHANGED notCP

CccChanged ==
    /\ \E value \in {0, BT_GATT_CCC_NOTIFY, BT_GATT_CCC_INDICATE} :
          ftms_cp_ccc_cfg_changed(value)
    /\ UNCHANGED <<peripheral_conn, ftms_cp_indicating,
                   last_cmd_was_converted, ftms_cp_response,
                   ftms_cp_write_buf, ftms_cp_write_busy,
                   ftms_cp_response_work, cp_write_ret, cp_write_log,
                   sim_event, gatt_writes, trainer_rsp, indications,
                   rsp_origin>>
    /\ UNCHANGED notCP

NextCP ==
    \/ CompanionWrite
    \/ WriteComplete
    \/ TrainerResponse
    \/ ResponseWork
    \/ IndicateComplete
    \/ CccChanged

SpecCP == InitCP /\ [][NextCP]_vars

(***************************************************************************)
(* Properties of the Control Point translator                              *)
(***************************************************************************)

\* C1: every response of the trainer that answers a translated (0x11 ->
\* 0x04) write and is accepted for delivery to the companion app carries the
\* opcode 0x11 in its echo byte, both in the response buffer and in every
\* indication handed to the host stack, whatever happened in between.
C1_TranslatedResponseRewritten ==
    /\ (rsp_origin /\ ftms_cp_response # <<>>) =>
          ftms_cp_response[2] = FTMS_CP_SET_INDOOR_BIKE_SIM
    /\ \A i \in 1 .. Len(indications) :
          indications[i].origin =>
             indications[i].data[2] = FTMS_CP_SET_INDOOR_BIKE_SIM

C3_BufferedResponseIsSent ==
    (rsp_unsent /\ peripheral_conn # NoConn /\ ftms_cp_indicate_enabled) =>
        (ftms_cp_response_work \/ (ftms_cp_indicating /\ indications # <<>>))

\* C7: a write of Set Indoor Bike Simulation with grade 500 while the
\* current speed lies in a bucket whose ceiling is 300 is forwarded as
\* [0x04, 0x0F], and the translation event reports the grade 300.
C7_ForwardedGradeIsLimited ==
    \A i \in 1 .. Len(gatt_writes) :
       LET w == gatt_writes[i]
           bucket == speed_to_bucket(current_speed)
       IN (w.translated /\ w.grade = 500 /\ bucket >= 0
           /\ max_safe_grade[bucket] = 300) =>
             /\ w.data = <<FTMS_CP_SET_TARGET_RESISTANCE, 15>>
             /\ sim_event.grade = 300

(***************************************************************************)
(* Specification of the grade limiter: its callers apply, learn and decay  *)
(* at any time, report activity as the clock advances, and the device      *)
(* reboots.                                                                *)
(***************************************************************************)
NoApply == [speed |-> 0, requested |-> 0, applied |-> 0, limited |-> FALSE]

\* first boot: nothing stored, grade_limiter_init has run at uptime 0
InitGL ==
    /\ connections = [i \in Slots |-> EmptySlot]
    /\ InitCPState
    /\ InitDevState(<<>>, {}, {})
    /\ nvs_grade_limits = NoBlob
    /\ max_safe_grade = load_limits_from_nvs(NoBlob)
    /\ current_applied_grade = 0
    /\ current_speed = 0
    /\ active_time_seconds = 0
    /\ last_active_check_time = 0
    /\ last_decay_at_seconds = 0
    /\ apply_result = NoApply
    /\ uptime = 0
    /\ ticks = 0

notGL == <<connections, cpVars, dmVars, hostVars, relayVars>>

ApplySpeeds == {999, 1000, 1039, 1040, 2999, 3000}

ApplyGrades == {-32768, 301, 2000, 2001}

LearnSpeeds == {999, 1040, 3000}

LearnGrades == {-50, 334, 2217}

TickSteps == {500, 3600000}

Apply ==
    /\ \E speed_mh \in ApplySpeeds, requested_grade \in ApplyGrades :
          grade_limiter_apply(speed_mh, requested_grade)
    /\ UNCHANGED <<max_safe_grade, active_time_seconds,
                   last_active_check_time, last_decay_at_seconds,
                   nvs_grade_limits, uptime, ticks>>
    /\ UNCHANGED notGL

Learn ==
    /\ \E speed_mh \in LearnSpeeds, grade \in LearnGrades, err \in BOOLEAN :
          grade_limiter_learn(speed_mh, grade, err)
    /\ UNCHANGED <<current_applied_grade, current_speed, active_time_seconds,
                   last_active_check_time, last_decay_at_seconds,
                   apply_result, uptime, ticks>>
    /\ UNCHANGED notGL

Decay ==
    /\ \E err \in BOOLEAN : grade_limiter_decay(active_time_seconds, err)
    /\ UNCHANGED <<current_applied_grade, current_speed, active_time_seconds,
                   last_active_check_time, apply_result, uptime, ticks>>
    /\ UNCHANGED notGL

UpdateActiveTime ==
    /\ \E is_active \in BOOLEAN, err \in BOOLEAN :
          grade_limiter_update_active_time(is_active, err)
    /\ UNCHANGED <<current_applied_grade, current_speed, apply_result,
                   uptime, ticks>>
    /\ UNCHANGED notGL

\* the system clock advances
Tick ==
    /\ ticks < MaxTicks
    /\ ticks' = ticks + 1
    /\ \E d \in TickSteps : uptime' = uptime + d
    /\ UNCHANGED <<max_safe_grade, current_applied_grade, current_speed,
                   active_time_seconds, last_active_check_time,
                   last_decay_at_seconds, nvs_grade_limits, apply_result>>
    /\ UNCHANGED notGL

\* power cycle: statics are zeroed, the clock restarts, grade_limiter_init
\* runs
Reboot ==
    /\ uptime' = 0
    /\ grade_limiter_init
    /\ current_applied_grade' = 0
    /\ current_speed' = 0
    /\ apply_result' = NoApply
    /\ UNCHANGED <<nvs_grade_limits, ticks>>
    /\ UNCHANGED notGL

NextGL ==
    \/ Apply
    \/ Learn
    \/ Decay
    \/ UpdateActiveTime
    \/ Tick
    \/ Reboot

SpecGL == InitGL /\ [][NextGL]_vars

(***************************************************************************)
(* Properties of the grade limiter                                         *)
(***************************************************************************)

\* C8: in every state reached after grade_limiter_init by apply, learn,
\* decay and update_active_time calls, each of the 50 bucket ceilings lies
\* in [100, 2000].
C8_CeilingsInRange ==
    /\ DOMAIN max_safe_grade = 0 .. 49
    /\ \A b \in DOMAIN max_safe_grade :
          max_safe_grade[b] >= 100 /\ max_safe_grade[b] <= 2000

\* a ceiling learned down to the floor has been raised by one decay
C8_Witness_LearnedAndDecayed ==
    /\ last_decay_at_seconds > 0
    /\ \E b \in Buckets : max_safe_grade[b] = 110
    /\ \E b \in Buckets : max_safe_grade[b] = 2000

\* C9: an apply call with a speed below 1000 or at or above 3000 returns the
\* requested grade as the applied grade and reports was_limited = false.
C9_OutsideBandUnchanged ==
    (apply_result.speed < 1000 \/ apply_result.speed >= 3000) =>
        /\ apply_result.applied = apply_result.requested
        /\ apply_result.limited = FALSE

\* an apply call at 3000 m/h asked for more than any ceiling allows
C9_Witness_AtUpperEdge ==
    /\ apply_result.speed = 3000
    /\ apply_result.requested = 2001
    /\ apply_result.applied = 2001
    /\ ~apply_result.limited

\* C10: an apply call with a speed in [1000, 3000) returns min(requested,
\* ceiling[(speed - 1000) / 40]) with the bucket index in 0..49, and reports
\* was_limited exactly when the applied grade is below the requested one.
C10_InsideBandMin ==
    [][apply_result' # apply_result =>
         LET r == apply_result'
             bucket == (r.speed - 1000) \div 40
         IN (r.speed >= 1000 /\ r.speed < 3000) =>
               /\ bucket \in 0 .. 49
               /\ r.applied = Min2(r.requested, max_safe_grade[bucket])
               /\ r.limited <=> (r.applied < r.requested)]_vars

\* an apply call in the bucket of 1040 m/h was cut to a learned ceiling
C10_Witness_Limited ==
    /\ apply_result.speed = 1040
    /\ apply_result.requested = 301
    /\ apply_result.applied = 300
    /\ apply_result.limited

\* C11: a learn call with an in-band speed and grade g leaves the ceiling of
\* the speed's bucket at or below its old value and not lower than
\* max(g * 90 / 100, 100), and changes no other bucket; with an out-of-band
\* speed it leaves the table unchanged.
C11_LearnBounds ==
    [][\A speed_mh \in LearnSpeeds, g \in LearnGrades, err \in BOOLEAN :
          grade_limiter_learn(speed_mh, g, err) =>
              LET bucket == (speed_mh - 1000) \div 40
                  floor == Max2(CDiv(g * 90, 100), 100)
              IN IF speed_mh >= 1000 /\ speed_mh < 3000
                 THEN /\ max_safe_grade'[bucket] <= max_safe_grade[bucket]
                      /\ max_safe_grade'[bucket] >= floor
                      /\ \A b \in Buckets \ {bucket} :
                            max_safe_grade'[b] = max_safe_grade[b]
                 ELSE max_safe_grade' = max_safe_grade]_vars

\* C11 as the code has it: the ceiling of the speed's bucket becomes the
\* smaller of its old value and max(g * 90 / 100, 100), so a ceiling already
\* below that value stays where it is; no other bucket changes, and an
\* out-of-band speed leaves the table unchanged.
C11_LearnTakesMin ==
    [][\A speed_mh \in LearnSpeeds, g \in LearnGrades, err \in BOOLEAN :
          grade_limiter_learn(speed_mh, g, err) =>
              LET bucket == (speed_mh - 1000) \div 40
                  floor == Max2(CDiv(g * 90, 100), 100)
              IN IF speed_mh >= 1000 /\ speed_mh < 3000
                 THEN /\ max_safe_grade'[bucket] =
                            Min2(max_safe_grade[bucket], floor)
                      /\ \A b \in Buckets \ {bucket} :
                            max_safe_grade'[b] = max_safe_grade[b]
                 ELSE max_safe_grade' = max_safe_grade]_vars

\* the bucket of 1040 m/h has learned from a release at 3.34% and the table
\* was saved
C11_Witness_Learned ==
    /\ max_safe_grade[1] = 300
    /\ max_safe_grade[0] = 2000
    /\ nvs_grade_limits = <<max_safe_grade>>

\* C12: in an update_active_time or decay call the active seconds grow only
\* if is_active is true, and the table changes only if at least 3600 active
\* seconds have accumulated since the previous decay (or since init); the
\* call then records the decay and raises each bucket below 2000 by 10,
\* capped at 2000.
C12_DecayOncePerActiveHour ==
    [][LET fired == /\ active_time_seconds' - last_decay_at_seconds >= 3600
                    /\ last_decay_at_seconds' = active_time_seconds'
                    /\ \A b \in Buckets :
                          max_safe_grade'[b] =
                              IF max_safe_grade[b] < 2000
                              THEN Min2(max_safe_grade[b] + 10, 2000)
                              ELSE max_safe_grade[b]
           quiet == /\ max_safe_grade' = max_safe_grade
                    /\ last_decay_at_seconds' = last_decay_at_seconds
       IN
       /\ \A is_active \in BOOLEAN, err \in BOOLEAN :
             grade_limiter_update_active_time(is_active, err) =>
                 /\ active_time_seconds' >= active_time_seconds
                 /\ active_time_seconds' # active_time_seconds => is_active
                 /\ fired \/ quiet
       /\ \A err \in BOOLEAN :
             (grade_limiter_decay(active_time_seconds, err)
              /\ active_time_seconds' = active_time_seconds) =>
                 fired \/ quiet]_vars

\* after one active hour the decay has raised the ceiling 1995 learned at
\* 1040 m/h to the cap of 2000 and saved the table
C12_Witness_DecayedOnce ==
    /\ active_time_seconds = 3600
    /\ last_decay_at_seconds = 3600
    /\ max_safe_grade[1] = 2000
    /\ nvs_grade_limits = <<DefaultLimits>>

(***************************************************************************)
(* Specification of the central role: advertisements are reported while    *)
(* scanning, connection attempts complete, time out or fail, the discovery *)
(* walk runs on each new link, sensors notify, links drop.                 *)
(***************************************************************************)
\* the reports of a device: a sensor may leave its name to the scan
\* response; a relay puts its name into the advertising data
AdvReports(dev) ==
    {[addr |-> dev, name |-> n, uuids |-> AdvUuids(dev), rssi |-> -60] :
        n \in IF dev = "relay" THEN {AdvName(dev)} ELSE {AdvName(dev), ""}}

\* the notifications a sensor sends on a characteristic
Payloads(uuid) ==
    CASE uuid = "2A37" -> {<<0, 60>>, <<1, 60>>}
      [] uuid = "2A63" -> {<<32, 0, 100, 0, 1, 0, 0, 4>>}
      [] uuid = "2AD2" -> {<<68, 0, 208, 7, 160, 0, 150, 0>>}
      [] uuid = "2AD3" -> {<<0, 1>>}
      [] uuid = "2ADA" -> {<<7, 30>>}
      [] OTHER -> {<<0>>}

\* the scan callback runs for one advertisement report
Sighting(adv, stop_err, create_err) ==
    /\ scanning
    /\ device_found(adv, stop_err, create_err)
    /\ UNCHANGED <<scan_window_active, scan_window_timeout, saved_devices,
                   save_err, discovering, host_subs, disc_log, in_range,
                   advertising>>
    /\ UNCHANGED <<cpVars, glVars, relayVars>>

DeviceFound ==
    \E dev \in in_range, stop_err \in BOOLEAN, create_err \in BOOLEAN :
        \E adv \in AdvReports(dev) : Sighting(adv, stop_err, create_err)

\* the delayed work runs; the host stack may reject the cancel request, and
\* does when the attempt is no longer in progress
ConnTimeout ==
    /\ conn_timeout_work # NoWork
    /\ uptime >= conn_timeout_work
    /\ \E err \in BOOLEAN :
          /\ (pending_conn # NoConn /\ conn_state[pending_conn] # "connecting")
                => err
          /\ conn_timeout_handler(err)
    /\ UNCHANGED <<connections, device_list, scan_window_active,
                   scan_window_timeout,
                   saved_devices, save_err, discovering, host_subs, disc_log,
                   in_range, advertising>>
    /\ UNCHANGED <<cpVars, glVars, relayVars>>

\* the host stack reports the outcome of a connection attempt
ConnectionResult(conn, conn_err, derr, werr) ==
    /\ conn_state[conn] \in {"connecting", "cancelling"}
    /\ conn_state' = [conn_state EXCEPT ![conn] =
                         IF conn_err THEN "idle" ELSE "connected"]
    /\ connected(conn, conn_err, derr, werr)
    /\ UNCHANGED <<scan_window_active, scan_window_timeout, in_range,
                   advertising>>
    /\ UNCHANGED <<cpVars, glVars, relayVars>>

Connected ==
    \E conn \in Addrs, conn_err \in BOOLEAN, derr \in BOOLEAN,
       werr \in BOOLEAN : ConnectionResult(conn, conn_err, derr, werr)

\* a link drops because the sensor went away or because the relay asked
\* for it: the host stack forgets the requests and subscriptions of the link
\* the host stack reports that the link to conn is gone; adv_err: the stack
\* refuses to advertise again
LinkDropped(conn, adv_err) ==
    /\ conn_state[conn] \in {"connected", "disconnecting"}
    /\ conn_state' = [conn_state EXCEPT ![conn] = "idle"]
    /\ in_range' = IF conn_state[conn] = "connected"
                   THEN in_range \ {conn} ELSE in_range
    /\ LET slot == SlotOf(connections, conn) IN
          /\ discovering' = [i \in Slots |-> i # slot /\ discovering[i]]
          /\ host_subs' = {e \in host_subs : e[1] # slot}
    /\ disconnected(conn, adv_err)
    /\ UNCHANGED <<scan_window_active, scan_window_timeout, saved_devices,
                   save_err, disc_log>>
    /\ UNCHANGED <<cpRest, glVars, relayVars>>

Disconnected == \E conn \in Addrs, adv_err \in BOOLEAN : LinkDropped(conn, adv_err)

\* the host stack answers the outstanding discovery request of a slot
DiscoverStep(slot, derr, serr) ==
    /\ discovering[slot]
    /\ discover_func(slot, derr, serr)
    /\ UNCHANGED <<conn_state, in_range, advertising>>
    /\ UNCHANGED <<cpVars, glVars, dmVars, relayVars>>

DiscoverCallback ==
    \E slot \in Slots, derr \in BOOLEAN, serr \in {"ok", "fail"} :
        DiscoverStep(slot, derr, serr)

\* a sensor notifies a characteristic the relay subscribed to
Notification ==
    /\ total_rx_count < MaxNotifs
    /\ \E e \in host_subs :
          LET s == connections[e[1]]
              sp == s.subscribe_params[e[2]]
              uuid == DB(s.conn)[sp.value_handle].uuid
          IN /\ sp.notify = "notify_func"
             /\ notify_src' = uuid
             /\ \E data \in Payloads(uuid) : notify_func(e[1], e[2], data)
    /\ UNCHANGED <<connections, cpVars, glVars, dmVars, hostVars>>

\* the clock advances to the expiry of the connection timeout
DevTick ==
    /\ ticks < MaxTicks
    /\ conn_timeout_work # NoWork
    /\ uptime < conn_timeout_work
    /\ ticks' = ticks + 1
    /\ uptime' = conn_timeout_work
    /\ UNCHANGED <<connections, cpVars, glRest, dmVars, hostVars, relayVars>>

NextCentral ==
    \/ DeviceFound
    \/ ConnTimeout
    \/ Connected
    \/ Disconnected
    \/ DiscoverCallback
    \/ Notification
    \/ DevTick

Sensors == {"strap", "power", "trainer", "combo", "combo2"}

\* one paired sensor, a phone and another relay are nearby
InitCentral ==
    /\ connections = [i \in Slots |-> EmptySlot]
    /\ InitCPState
    /\ InitGLLimited
    /\ \E dev \in Sensors : InitDevState(<<dev>>, {dev, "phone", "relay"}, {})

SpecCentral == InitCentral /\ [][NextCentral]_vars

(***************************************************************************)
(* Properties of the central role                                          *)
(***************************************************************************)
\* C4: the tag of a subscription identifies its characteristic (two
\* notify_func subscriptions of a slot on different characteristics carry
\* different tags), and a notification of the Training Status or Machine
\* Status characteristic is republished on that characteristic of the
\* relay's Fitness Machine service, never as Indoor Bike Data.
C4_DispatchByCharacteristic ==
    /\ \A i \in Slots :
          connections[i].conn # NoConn =>
              LET s == connections[i]
                  subs == {j \in SubIdx :
                              j < s.subscribe_count
                              /\ s.subscribe_params[j].notify = "notify_func"}
                  chrc(j) == DB(s.conn)[s.subscribe_params[j].value_handle].uuid
              IN \A j \in subs, k \in subs :
                    chrc(j) # chrc(k) => s.service_type[j] # s.service_type[k]
    /\ notify_src = "2AD3" =>
          \A n \in 1 .. Len(notified) : notified[n].attr = "ftms_svc.attrs[3]"
    /\ notify_src = "2ADA" =>
          \A n \in 1 .. Len(notified) : notified[n].attr = "ftms_svc.attrs[5]"

\* C5: on a link that is up, a discovery walk whose requests were all
\* accepted has either a request outstanding or has reached Complete with
\* scanning resumed.  The walk advances only in discover_func, so a slot
\* that violates this never reaches Complete.
C5_WalkReachesComplete ==
    \A i \in Slots :
        (/\ connections[i].conn # NoConn
         /\ conn_state[connections[i].conn] = "connected"
         /\ disc_log[i] \notin {"none", "rejected"}
         /\ ~discovering[i])
            => (disc_log[i] = "complete" /\ scanning)

\* C6: when the connection timeout fires on a pending attempt, either the
\* host stack accepts the cancel request (it then reports the failed
\* attempt), or the slot of the attempt is free and scanning is resumed when
\* the handler returns.
C6_TimeoutFreesSlot ==
    [][(ConnTimeout /\ pending_conn # NoConn)
          => \/ conn_state'[pending_conn] = "cancelling"
             \/ (SlotOf(connections', pending_conn) = -1 /\ scanning')]_vars

(***************************************************************************)
(* Specification of the data-plane relay: a power meter and a trainer are  *)
(* connected and subscribed, they notify, the clock advances.              *)
(***************************************************************************)
RECURSIVE Walk(_)
\* the slot when the discovery walk stops, every request and subscription
\* having succeeded
Walk(s) ==
    LET db == DB(s.conn)
        h == FindAttr(db, s.discover_params)
        r == IF h = 0 THEN DiscoverDone(s)
             ELSE IF s.discover_params.type = "primary" THEN
                 Outcome([s EXCEPT !.discover_params =
                                       CharacteristicParams(h + 1)],
                         TRUE, FALSE, FALSE, -1, "")
             ELSE IF s.discover_params.type = "characteristic" THEN
                 DiscoverCharacteristic(s, h, db[h], "ok")
             ELSE DiscoverDescriptor(s, h, "ok")
    IN IF r.call THEN Walk(r.slot) ELSE r.slot

\* the slot of a sensor found with rssi -60, connected and walked
Walked(dev) ==
    Walk([EmptySlot EXCEPT !.conn = dev,
                           !.rssi = -60,
                           !.discover_params = PrimaryParams(0)])

RelaySlotTable ==
    [i \in Slots |-> IF i = 0 THEN Walked("power")
                     ELSE IF i = 1 THEN Walked("trainer")
                     ELSE EmptySlot]

\* the record device_found keeps of a saved sensor last seen at time 0
Tracked(dev) ==
    [addr |-> dev, name |-> AdvName(dev), svc_mask |-> SvcMask(AdvUuids(dev)),
     last_seen |-> 0, is_saved |-> TRUE, rssi |-> -60]

\* Cycling Power measurements: flags, power, and with flag 0x20 the crank
\* revolutions and the last crank event time
CpFrame(power, crank) ==
    IF crank = <<>> THEN <<0, 0, Lo8(power), Hi8(power)>>
    ELSE <<32, 0, Lo8(power), Hi8(power),
           Lo8(crank[1]), Hi8(crank[1]), Lo8(crank[2]), Hi8(crank[2])>>

CrankSamples == {<<100, 0>>, <<103, 1024>>, <<65533, 64512>>, <<30686, 1023>>}

\* what the sensors send: power 100 W without crank data, 200 W with each
\* crank sample, -100 W with crank data; Indoor Bike Data with cadence and
\* power (150 W), without a power field, and cut short inside the power field
RelayPayloads(uuid) ==
    CASE uuid = "2A63" ->
            {CpFrame(100, <<>>), CpFrame(-100, <<100, 0>>)}
            \cup {CpFrame(200, c) : c \in CrankSamples}
      [] uuid = "2AD2" ->
            {<<68, 0, 208, 7, 160, 0, 150, 0>>,
             <<4, 0, 208, 7, 160, 0>>,
             <<64, 0, 208, 7, 150>>}
      [] OTHER -> {}

RelayTickSteps == {4999, 3999, 1}

InitRelay ==
    /\ connections = RelaySlotTable
    /\ InitCPState
    /\ InitGLLimited
    /\ device_list = <<Tracked("power"), Tracked("trainer")>>
    /\ pending_conn = NoConn
    /\ conn_timeout_work = NoWork
    /\ scan_window_active = FALSE
    /\ scan_window_timeout = NoWork
    /\ saved_devices = SavedTable(<<"power", "trainer">>)
    /\ save_err = "OK"
    /\ conn_state = [a \in Addrs |-> IF a \in {"power", "trainer"}
                                     THEN "connected" ELSE "idle"]
    /\ scanning = TRUE
    /\ discovering = [i \in Slots |-> FALSE]
    /\ host_subs = {<<i, j>> \in Slots \X SubIdx :
                       j < RelaySlotTable[i].subscribe_count}
    /\ disc_log = [i \in Slots |-> IF i \in {0, 1} THEN "complete" ELSE "none"]
    /\ in_range = {"power", "trainer"}
    /\ advertising = TRUE
    /\ cached_cp_data = ZeroCpCache
    /\ last_cp_data_time = 0
    /\ total_rx_count = 0
    /\ measurement = NoMeasurements
    /\ notified = <<>>
    /\ notify_src = NoUuid

\* a sensor notifies a characteristic the relay subscribed to
RelayNotify ==
    /\ total_rx_count < MaxRelayed
    /\ \E e \in host_subs :
          LET s == connections[e[1]]
              sp == s.subscribe_params[e[2]]
              uuid == DB(s.conn)[sp.value_handle].uuid
          IN /\ sp.notify = "notify_func"
             /\ notify_src' = uuid
             /\ \E data \in RelayPayloads(uuid) : notify_func(e[1], e[2], data)
    /\ UNCHANGED <<connections, cpVars, glVars, dmVars, hostVars>>

RelayTick ==
    /\ ticks < MaxTicks
    /\ ticks' = ticks + 1
    /\ \E d \in RelayTickSteps : uptime' = uptime + d
    /\ UNCHANGED <<connections, cpVars, glRest, dmVars, hostVars, relayVars>>

NextRelay ==
    \/ RelayNotify
    \/ RelayTick

SpecRelay == InitRelay /\ [][NextRelay]_vars

(***************************************************************************)
(* Properties of the data-plane relay                                      *)
(***************************************************************************)
\* C13: an Indoor Bike Data notification is republished with its length
\* unchanged and with no byte changed outside the two bytes of its power
\* field; if no Cycling Power measurement was ever received, or the last one
\* was received 5 s or more ago, it is republished unchanged.
C13_InjectionFrame ==
    [][\A e \in host_subs, data \in RelayPayloads("2AD2") :
          (notify_src' = "2AD2" /\ notify_func(e[1], e[2], data)) =>
              LET out == notified'[1].data
                  p == PowerOffset(data)
              IN /\ Len(notified') = 1
                 /\ Len(out) = Len(data)
                 /\ {k \in 1 .. Len(data) : out[k] # data[k]}
                        \subseteq {p + 1, p + 2}
                 /\ (measurement.cp = <<>>
                     \/ uptime - last_cp_data_time >= 5000) => out = data]_vars

\* an Indoor Bike Data frame was republished unchanged 5 s after the last
\* Cycling Power measurement, which had filled the cache
C13_Witness_Expired ==
    /\ notify_src = "2AD2"
    /\ cached_cp_data.valid
    /\ cached_cp_data.power = 200
    /\ uptime - last_cp_data_time = 5000
    /\ notified = <<Relayed("ftms_svc.attrs[1]",
                            <<68, 0, 208, 7, 160, 0, 150, 0>>)>>

\* C14: when an Indoor Bike Data frame with a power field is relayed less
\* than 5 s after a Cycling Power measurement, the power field of the
\* republished frame holds the power of that measurement, whatever the
\* power and with or without crank data in the measurement.
C14_PowerInjected ==
    [][\A e \in host_subs, data \in RelayPayloads("2AD2") :
          (notify_src' = "2AD2" /\ notify_func(e[1], e[2], data)) =>
              LET out == notified'[1].data
                  p == PowerOffset(data)
                  cp == measurement.cp
              IN (/\ p >= 0
                  /\ p + 2 <= Len(data)
                  /\ Len(cp) >= 4
                  /\ uptime - last_cp_data_time < 5000)
                    => (out[p + 1] = cp[3] /\ out[p + 2] = cp[4])]_vars

\* C15: a Cycling Power notification with crank data (r2, t2) that follows
\* one with crank data (r1, t1), r2 # r1 and t2 # t1, sets the cached cadence
\* to min(65535, ((r2 - r1) mod 2^16) * 122880 / ((t2 - t1) mod 2^16)).
\* The quotient is taken in two steps: the product is (rd * 960) * 128.
C15_CadenceFormula ==
    [][\A e \in host_subs, data \in RelayPayloads("2A63") :
          (notify_src' = "2A63" /\ notify_func(e[1], e[2], data)) =>
              LET prev == measurement.cp
                  crank(f) == Len(f) = 8 /\ Bit(f[1], 5)
                  rd == (U16At(data, 4) - U16At(prev, 4)) % 65536
                  td == (U16At(data, 6) - U16At(prev, 6)) % 65536
                  qa == (rd * 960) \div td
                  ra == (rd * 960) % td
                  cadence == IF qa >= 512 THEN 65535
                             ELSE Min2(qa * 128 + (ra * 128) \div td, 65535)
              IN (crank(prev) /\ crank(data) /\ rd # 0 /\ td # 0)
                    => cached_cp_data'.cadence = cadence]_vars

(***************************************************************************)
(* Specification of pairing: advertisements are reported while scanning,   *)
(* connection attempts complete or time out, links drop, the user holds    *)
(* the button, the scan window expires, and time passes between these      *)
(* events.  The discovery walk of a new link is started and not answered   *)
(* here; the central specification above follows it.                       *)
(***************************************************************************)
\* a power meter paired by an earlier run is connected, its walk complete,
\* and has stopped advertising; a paired strap, a phone and another relay
\* advertise nearby
InitPairing ==
    /\ connections = [i \in Slots |-> IF i = 0 THEN Walked("power")
                                      ELSE EmptySlot]
    /\ InitCPState
    /\ InitGLLimited
    /\ device_list = <<Tracked("power")>>
    /\ pending_conn = NoConn
    /\ conn_timeout_work = NoWork
    /\ scan_window_active = FALSE
    /\ scan_window_timeout = NoWork
    /\ saved_devices = SavedTable(<<"power", "strap">>)
    /\ save_err = "none"
    /\ conn_state = [a \in Addrs |-> IF a = "power" THEN "connected"
                                     ELSE "idle"]
    /\ scanning = TRUE
    /\ discovering = [i \in Slots |-> FALSE]
    /\ host_subs = {<<i, j>> \in Slots \X SubIdx :
                       i = 0 /\ j < Walked("power").subscribe_count}
    /\ disc_log = [i \in Slots |-> IF i = 0 THEN "complete" ELSE "none"]
    /\ in_range = {"strap", "phone", "relay"}
    /\ advertising = TRUE
    /\ cached_cp_data = ZeroCpCache
    /\ last_cp_data_time = 0
    /\ total_rx_count = 0
    /\ measurement = NoMeasurements
    /\ notified = <<>>
    /\ notify_src = NoUuid

\* the button is held for two seconds
LongPress ==
    /\ ~scan_window_active
    /\ long_press_timeout_handler
    /\ UNCHANGED <<connections, device_list, pending_conn, conn_timeout_work,
                   save_err,
                   discovering, host_subs, disc_log, in_range, advertising>>
    /\ UNCHANGED <<cpVars, glVars, relayVars>>

\* the delayed work of the scan window runs
ScanWindowTimeout ==
    /\ scan_window_timeout # NoWork
    /\ uptime >= scan_window_timeout
    /\ scan_window_timeout_handler
    /\ UNCHANGED <<connections, device_list, pending_conn, conn_timeout_work,
                   saved_devices, save_err, conn_state, discovering, host_subs,
                   disc_log, in_range, advertising>>
    /\ UNCHANGED <<cpVars, glVars, relayVars>>

\* the expiry times of the delayed work items still ahead
Deadlines ==
    {t \in {conn_timeout_work, scan_window_timeout} : t # NoWork /\ t > uptime}

\* the clock advances to the next expiry, or by just over the aging limit
\* when no expiry comes first
PairTick ==
    /\ ticks < MaxTicks
    /\ \E t \in Deadlines \cup {uptime + 10001} :
          /\ \A d \in Deadlines : t <= d
          /\ uptime' = t
    /\ ticks' = ticks + 1
    /\ UNCHANGED <<connections, cpVars, glRest, dmVars, hostVars, relayVars>>

NextPairing ==
    \/ DeviceFound
    \/ ConnTimeout
    \/ Connected
    \/ Disconnected
    \/ LongPress
    \/ ScanWindowTimeout
    \/ PairTick

SpecPairing == InitPairing /\ [][NextPairing]_vars

(***************************************************************************)
(* Properties of pairing                                                   *)
(***************************************************************************)
\* the record of a device is in the list
Listed(list, addr) == \E k \in 1 .. Len(list) : list[k].addr = addr

\* a connection slot holds a connection to the address
Occupies(conns, addr) == \E i \in Slots : conns[i].conn = addr

\* C16: device_found never removes the record of a device whose address is
\* the peer address of an occupied connection slot, however long ago the
\* device was last sighted.
C16_ConnectedNeverAged ==
    [][DeviceFound =>
          \A k \in 1 .. Len(device_list) :
              Occupies(connections, device_list[k].addr)
                  => Listed(device_list', device_list[k].addr)]_vars

\* the connected power meter, which does not advertise, is still listed and
\* was refreshed by a clean-up pass that ran more than 10 s after its last
\* sighting
C16_Witness_StaleConnectedKept ==
    /\ Occupies(connections, "power")
    /\ conn_state["power"] = "connected"
    /\ \E k \in 1 .. Len(device_list) :
          /\ device_list[k].addr = "power"
          /\ device_list[k].last_seen > 10000
          /\ device_list[k].last_seen = uptime

\* C17: a record with no connection whose device was not sighted for more
\* than 10 s is removed by the next advertisement of any other device,
\* whatever that advertisement is: no report that the scan callback can be
\* run for leaves such a record in the list.
C17_StaleRemovedOnAnySighting ==
    \A dev \in in_range, stop_err \in BOOLEAN, create_err \in BOOLEAN :
        \A adv \in AdvReports(dev) :
            \A k \in 1 .. Len(device_list) :
                (/\ device_list[k].addr # adv.addr
                 /\ ~Occupies(connections, device_list[k].addr)
                 /\ uptime - device_list[k].last_seen > 10000)
                    => ~ENABLED (/\ Sighting(adv, stop_err, create_err)
                                 /\ Listed(device_list', device_list[k].addr))

\* the host stack reports the link to conn established and
\* save_connected_device saves the device successfully
SavedNow(conn) ==
    /\ conn_state[conn] \in {"connecting", "cancelling"}
    /\ conn_state'[conn] = "connected"
    /\ SlotOf(connections, conn) # -1
    /\ IdxOf(device_list, conn) # 0
    /\ ~device_list[IdxOf(device_list, conn)].is_saved
    /\ nvs_save_device_ret(conn, FALSE) = "OK"
    /\ save_err' = "OK"

C20_UnsavedIgnoredOutsideWindow ==
    [][\A a \in Addrs :
          /\ (~scan_window_active /\ ~nvs_is_device_saved(a)) =>
                /\ Listed(device_list', a) => Listed(device_list, a)
                /\ Occupies(connections', a) => Occupies(connections, a)
                /\ pending_conn' = a => pending_conn = a
          /\ (conn_state'[a] = "connecting" /\ conn_state[a] # "connecting") =>
                (nvs_is_device_saved(a) \/ scan_window_active)]_vars

\* inside the scan window a connection to a sensor that is not in the store
\* is being established
C20_Witness_PairingInWindow ==
    \E a \in Addrs :
        /\ scan_window_active
        /\ ~nvs_is_device_saved(a)
        /\ conn_state[a] = "connecting"
        /\ pending_conn = a

(***************************************************************************)
(* Specification of the saved-device store: callers save devices and       *)
(* clear the store.                                                        *)
(***************************************************************************)
InitNvs ==
    /\ connections = [i \in Slots |-> EmptySlot]
    /\ InitCPState
    /\ InitGLLimited
    /\ InitDevState(<<>>, {}, {})

notNvs == <<connections, cpVars, glVars, hostVars, relayVars, device_list,
            pending_conn, conn_timeout_work, scan_window_active,
            scan_window_timeout>>

\* nvs_save_device(addr, name, svc_mask) is called; werr: nvs_write fails
SaveDeviceAs(addr, name, svc_mask, werr) ==
    /\ saved_devices' = SavedAfter(addr, name, svc_mask)
    /\ save_err' = nvs_save_device_ret(addr, werr)
    /\ UNCHANGED notNvs

SaveDevice(addr, werr) ==
    SaveDeviceAs(addr, AdvName(addr), SvcMask(AdvUuids(addr)), werr)

\* the names a device is saved under: the one it advertises; the strap also
\* under the name its owner gave it since
SavedNames(addr) ==
    IF addr = "strap" THEN {AdvName(addr), "MyStrap"} ELSE {AdvName(addr)}

NvsSave ==
    \E addr \in Sensors, werr \in BOOLEAN :
        \E name \in SavedNames(addr) :
            SaveDeviceAs(addr, name, SvcMask(AdvUuids(addr)), werr)

NvsClear ==
    /\ nvs_clear_all_devices
    /\ UNCHANGED save_err
    /\ UNCHANGED notNvs

NextNvs ==
    \/ NvsSave
    \/ NvsClear

SpecNvs == InitNvs /\ [][NextNvs]_vars

(***************************************************************************)
(* Properties of the saved-device store                                    *)
(***************************************************************************)
\* all four records are valid and none holds the address
FullOfOthers(addr) ==
    \A i \in SavedIdx : saved_devices[i].valid /\ saved_devices[i].addr # addr

\* C18: nvs_save_device with an address not in the store, while all four
\* records are valid and hold other addresses, fails with the no-free-slot
\* error and leaves the four records unchanged.
C18_FullStoreRejects ==
    [][\A addr \in Sensors, werr \in BOOLEAN :
          (SaveDevice(addr, werr) /\ FullOfOthers(addr))
              => (save_err' = "ENOMEM" /\ saved_devices' = saved_devices)]_vars

\* a fifth sensor was refused by a store holding four others
C18_Witness_Refused ==
    /\ save_err = "ENOMEM"
    /\ \A i \in SavedIdx : saved_devices[i].valid
    /\ Cardinality({saved_devices[i].addr : i \in SavedIdx}) = MAX_SAVED_DEVICES

(***************************************************************************)
(* Specification of admission with the slot table full: three paired       *)
(* sensors are connected, a fourth paired sensor advertises; links drop,   *)
(* connection attempts complete or time out, the discovery walk runs.      *)
(***************************************************************************)
FullSlotTable ==
    [i \in Slots |-> IF i = 0 THEN Walked("power")
                     ELSE IF i = 1 THEN Walked("trainer")
                     ELSE Walked("combo")]

InitAdmit ==
    /\ connections = FullSlotTable
    /\ InitCPState
    /\ InitGLLimited
    /\ device_list = <<Tracked("power"), Tracked("trainer"), Tracked("combo")>>
    /\ pending_conn = NoConn
    /\ conn_timeout_work = NoWork
    /\ scan_window_active = FALSE
    /\ scan_window_timeout = NoWork
    /\ saved_devices = SavedTable(<<"power", "trainer", "combo", "strap">>)
    /\ save_err = "OK"
    /\ conn_state = [a \in Addrs |->
                        IF a \in {"power", "trainer", "combo"}
                        THEN "connected" ELSE "idle"]
    /\ scanning = TRUE
    /\ discovering = [i \in Slots |-> FALSE]
    /\ host_subs = {<<i, j>> \in Slots \X SubIdx :
                       j < FullSlotTable[i].subscribe_count}
    /\ disc_log = [i \in Slots |-> "complete"]
    /\ in_range = {"strap", "phone", "relay"}
    /\ advertising = TRUE
    /\ cached_cp_data = ZeroCpCache
    /\ last_cp_data_time = 0
    /\ total_rx_count = 0
    /\ measurement = NoMeasurements
    /\ notified = <<>>
    /\ notify_src = NoUuid

NextAdmit ==
    \/ DeviceFound
    \/ ConnTimeout
    \/ Connected
    \/ Disconnected
    \/ DiscoverCallback
    \/ DevTick

SpecAdmit == InitAdmit /\ [][NextAdmit]_vars

(***************************************************************************)
(* Properties of admission                                                 *)
(***************************************************************************)
\* C21: when a device is sighted while every connection slot is occupied,
\* no connect request is issued, scanning is not stopped, no timer is
\* started and the slot table is unchanged.
C21_NoAdmissionWhenFull ==
    [][((\A i \in Slots : connections[i].conn # NoConn) /\ DeviceFound) =>
          /\ connections' = connections
          /\ conn_state' = conn_state
          /\ pending_conn' = pending_conn
          /\ conn_timeout_work' = conn_timeout_work
          /\ scanning' = scanning]_vars

\* the paired strap was sighted with its name while the three slots held
\* the other sensors: it is tracked and no connection to it was requested
C21_Witness_SightedWhileFull ==
    /\ \A i \in Slots : connections[i].conn \in {"power", "trainer", "combo"}
    /\ Listed(device_list, "strap")
    /\ device_list[IdxOf(device_list, "strap")].name = AdvName("strap")
    /\ device_list[IdxOf(device_list, "strap")].is_saved
    /\ conn_state["strap"] = "idle"
    /\ pending_conn = NoConn
    /\ scanning

InitPeriph ==
    /\ connections = [i \in Slots |-> IF i = 0 THEN StrapAt
                                      ELSE IF i = 1 THEN TrainerAt
                                      ELSE EmptySlot]
    /\ InitCPState
    /\ InitGLLimited
    /\ InitDevState(<<>>, {}, {"strap", "trainer"})

CompanionLinked == conn_state[Zwift] = "connected"

\* the companion app connects to the advertising relay: the host stack stops
\* advertising and calls connected(), which finds no slot and returns
CompanionConnected ==
    /\ advertising
    /\ conn_state[Zwift] = "idle"
    /\ conn_state' = [conn_state EXCEPT ![Zwift] = "connected"]
    /\ advertising' = FALSE
    /\ \E derr \in BOOLEAN, werr \in BOOLEAN :
          connected(Zwift, FALSE, derr, werr)
    /\ UNCHANGED <<scan_window_active, scan_window_timeout, in_range>>
    /\ UNCHANGED <<cpVars, glVars, relayVars>>

\* the companion's link is lost
CompanionDisconnected ==
    \E adv_err \in BOOLEAN : LinkDropped(Zwift, adv_err)

NextPeriph ==
    \/ CompanionConnected
    \/ CompanionDisconnected
    \/ (CompanionLinked /\ CompanionWrite)
    \/ (CompanionLinked /\ CccChanged)
    \/ WriteComplete
    \/ TrainerResponse
    \/ ResponseWork
    \/ IndicateComplete

SpecPeriph == InitPeriph /\ [][NextPeriph]_vars

(***************************************************************************)
(* Properties of the companion link                                        *)
(***************************************************************************)
\* C23: when the link that drops is held by no sensor slot, the bound
\* companion link is released, advertising is restarted (when the host
\* stack accepts the request) and no sensor slot is changed; and the
\* indication-enabled and indication-busy state do not carry over to the
\* next companion connection.
C23_PeripheralCleared ==
    [][/\ \A adv_err \in BOOLEAN :
             LinkDropped(Zwift, adv_err) =>
                 /\ peripheral_conn' = NoConn
                 /\ connections' = connections
                 /\ adv_err \/ advertising'
       /\ CompanionConnected =>
             /\ ~ftms_cp_indicate_enabled'
             /\ ~ftms_cp_indicating']_vars

\* the companion is connected again while an indication of the previous
\* connection is still counted as in flight and indications as enabled
C23_Witness_FlagsCarried ==
    /\ CompanionLinked
    /\ peripheral_conn = NoConn
    /\ ftms_cp_indicate_enabled
    /\ ftms_cp_indicating

(***************************************************************************)
(* The translation of single Control Point writes: one write at a time,    *)
(* with grades around every edge of the conversion and commands of the     *)
(* other opcodes                                                           *)
(***************************************************************************)
\* the values of an int16_t
Int16 == -32768 .. 32767

\* grades around the edges of GRADE_RESISTANCE and of int16_t
XlateGrades == {-32768, -121, -120, -101, -100, -99, -81, -80, -1, 0, 19, 20,
                500, 1899, 1900, 1901, 32767}

\* Set Indoor Bike Simulation as the companion sends it: wind speed 0, the
\* grade, rolling resistance 40 and wind resistance 51
SimCmd7(grade) ==
    <<FTMS_CP_SET_INDOOR_BIKE_SIM, 0, 0, Lo8(grade), Hi8(grade), 40, 51>>

\* commands of other opcodes, of 1 to 33 bytes, and a Set Indoor Bike
\* Simulation too short to be translated
PlainWrites ==
    {<<FTMS_CP_REQUEST_CONTROL>>,
     <<1>>,
     <<FTMS_CP_SET_TARGET_RESISTANCE, 50>>,
     <<5, 200, 0>>,
     <<7>>,
     <<8, 1>>,
     <<16, 1, 2, 3, 4, 5>>,
     <<18, 52, 8, 0, 0>>,
     <<255, 17, 0, 0, 244, 1>>,
     [k \in 1 .. FTMS_CP_WRITE_BUF_SIZE |-> k],
     [k \in 1 .. (FTMS_CP_WRITE_BUF_SIZE + 1) |-> k],
     <<FTMS_CP_SET_INDOOR_BIKE_SIM, 0, 0, 244>>}

XlateWrites ==
    {SimCmd(g) : g \in XlateGrades} \cup {SimCmd7(g) : g \in XlateGrades}
    \cup PlainWrites

InitXlate ==
    /\ connections = [i \in Slots |-> IF i = 0 THEN StrapAt
                                      ELSE IF i = 1 THEN TrainerAt
                                      ELSE EmptySlot]
    /\ InitCPState
    /\ InitGLLimited
    /\ InitDevState(<<>>, {}, {"strap", "trainer", Zwift})

\* the companion writes while no earlier command is on its way
XlateWrite ==
    /\ gatt_writes = <<>>
    /\ trainer_rsp = <<>>
    /\ \E cmd \in XlateWrites, err \in BOOLEAN : CpWrite(cmd, 0, err)

NextXlate ==
    \/ XlateWrite
    \/ WriteComplete
    \/ TrainerResponse

SpecXlate == InitXlate /\ [][NextXlate]_vars

(***************************************************************************)
(* Properties of the translation                                           *)
(***************************************************************************)
\* the resistance the conversion is documented to give for a grade
ResistanceFor(g) ==
    IF g <= -100 THEN 0
    ELSE IF g >= 1900 THEN 100
    ELSE (g + 100) \div 20

\* the record of a forwarded translation of grade g
TranslatedWrite(g) ==
    [slot |-> TrainerSlot,
     handle |-> connections[TrainerSlot].ftms_control_point_handle,
     data |-> <<FTMS_CP_SET_TARGET_RESISTANCE, ResistanceFor(g)>>,
     translated |-> TRUE,
     grade |-> g]

\* C24: a Set Indoor Bike Simulation write of at least 5 bytes with grade
\* g, when forwarded, reaches the trainer as exactly the two bytes
\* [0x04, r] with r = clamp((g + 100) / 20, 0, 100), for every signed
\* 16-bit g: no such write, made as the first write to the idle translator,
\* can end with anything else handed to the trainer.
C24_GradeToResistance ==
    (cp_write_log = "none" /\ ~ftms_cp_write_busy) =>
        \A g \in Int16 :
            /\ ~ENABLED (/\ CpWrite(SimCmd(g), 0, FALSE)
                         /\ ~(/\ gatt_writes' = <<TranslatedWrite(g)>>
                              /\ ftms_cp_write_buf' = TranslatedWrite(g).data
                              /\ last_cmd_was_converted'))
            /\ ~ENABLED (/\ CpWrite(SimCmd7(g), 0, FALSE)
                         /\ ~(/\ gatt_writes' = <<TranslatedWrite(g)>>
                              /\ ftms_cp_write_buf' = TranslatedWrite(g).data
                              /\ last_cmd_was_converted'))

\* the grades -100 and 1900 and the two ends of int16_t were written and
\* forwarded: the last of them is on its way as [0x04, 100]
C24_Witness_EdgeForwarded ==
    /\ gatt_writes # <<>>
    /\ gatt_writes[1].translated
    /\ gatt_writes[1].grade = 32767
    /\ gatt_writes[1].data = <<FTMS_CP_SET_TARGET_RESISTANCE, 100>>
    /\ ftms_cp_write_busy

\* C25: a write whose opcode is not Set Indoor Bike Simulation, when it is
\* forwarded, reaches the trainer with exactly the bytes (and so the
\* length) the companion wrote, and is not marked translated.
C25_PassThrough ==
    [][\A cmd \in PlainWrites :
          (/\ cmd[1] # FTMS_CP_SET_INDOOR_BIKE_SIM
           /\ CpWrite(cmd, 0, FALSE)
           /\ cp_write_log' = "forwarded") =>
              /\ Len(gatt_writes') = Len(gatt_writes) + 1
              /\ gatt_writes'[Len(gatt_writes')].data = cmd
              /\ ~gatt_writes'[Len(gatt_writes')].translated
              /\ ftms_cp_write_buf' = cmd
              /\ ~last_cmd_was_converted']_vars

\* a command of another opcode that fills the write buffer is on its way
\* to the trainer as written
C25_Witness_LongPlainForwarded ==
    /\ gatt_writes # <<>>
    /\ gatt_writes[1].data = [k \in 1 .. FTMS_CP_WRITE_BUF_SIZE |-> k]
    /\ ~gatt_writes[1].translated
    /\ ~last_cmd_was_converted
    /\ cp_write_log = "forwarded"

(***************************************************************************)
(* From boot, without any user action: a paired strap and a trainer that   *)
(* was never paired advertise, the button is not pressed, and the clock    *)
(* runs past the length documented for the exclusive window                *)
(***************************************************************************)
\* #define EXCLUSIVE_WINDOW_MS (6 * 60 * 1000)
EXCLUSIVE_WINDOW_MS == 360000

\* main has run: device_manager_init, start_advertising and start_scan
InitBoot ==
    /\ connections = [i \in Slots |-> EmptySlot]
    /\ InitCPState
    /\ InitGLLimited
    /\ InitDevState(<<"strap">>, {"strap", "trainer"}, {})

\* the clock advances to the next expiry, by just over the aging limit, or
\* past the sixth minute after boot
BootTick ==
    /\ ticks < MaxTicks
    /\ \E t \in Deadlines \cup {uptime + 10001, EXCLUSIVE_WINDOW_MS + 1} :
          /\ t > uptime
          /\ \A d \in Deadlines : t <= d
          /\ uptime' = t
    /\ ticks' = ticks + 1
    /\ UNCHANGED <<connections, cpVars, glRest, dmVars, hostVars, relayVars>>

NextBoot ==
    \/ DeviceFound
    \/ ConnTimeout
    \/ Connected
    \/ Disconnected
    \/ DiscoverCallback
    \/ BootTick

SpecBoot == InitBoot /\ [][NextBoot]_vars

(***************************************************************************)
(* Properties after boot                                                   *)
(***************************************************************************)
\* C26: during the first 6 minutes after boot only saved devices are
\* tracked and connected; once that time has elapsed, a device that was
\* never saved and advertises its name and a service of interest is
\* accepted for connection when it is sighted, without any user action.
C26_BootExclusiveWindow ==
    /\ uptime < EXCLUSIVE_WINDOW_MS =>
          /\ \A i \in 1 .. Len(device_list) :
                nvs_is_device_saved(device_list[i].addr)
          /\ \A i \in Slots :
                connections[i].conn # NoConn =>
                    nvs_is_device_saved(connections[i].conn)
    /\ (/\ uptime >= EXCLUSIVE_WINDOW_MS
        /\ scanning
        /\ pending_conn = NoConn
        /\ FreeSlot(connections) # -1
        /\ "trainer" \in in_range
        /\ conn_state["trainer"] = "idle"
        /\ ~nvs_is_device_saved("trainer")) =>
          ENABLED (/\ Sighting([addr |-> "trainer", name |-> AdvName("trainer"),
                                 uuids |-> AdvUuids("trainer"), rssi |-> -60],
                                FALSE, FALSE)
                   /\ conn_state'["trainer"] = "connecting")

\* more than six minutes after boot the trainer still advertises and the
\* relay scans with free slots; the trainer is neither tracked nor linked
C26_Witness_StillExcluded ==
    /\ uptime > EXCLUSIVE_WINDOW_MS
    /\ scanning
    /\ "trainer" \in in_range
    /\ ~Listed(device_list, "trainer")
    /\ ~Occupies(connections, "trainer")
    /\ conn_state["trainer"] = "idle"
    /\ conn_state["strap"] = "connected"

(***************************************************************************)
(* Properties of saving a device                                           *)
(***************************************************************************)
\* the lowest index in a non-empty set of indices
Lowest(S) == CHOOSE i \in S : \A j \in S : i <= j

\* no two valid records of the table hold the same address
NoDuplicateAddress(table) ==
    \A i \in SavedIdx, j \in SavedIdx :
        (i # j /\ table[i].valid /\ table[j].valid) =>
            table[i].addr # table[j].addr

\* C27: nvs_save_device(a, name, mask): if a valid record with address a
\* exists it is overwritten in place; otherwise the lowest-index empty slot
\* receives the record; in both cases no other slot changes and afterwards
\* no two valid records hold the same address.
C27_SaveInPlaceOrFirstEmpty ==
    [][\A addr \in Sensors, werr \in BOOLEAN :
          \A name \in SavedNames(addr) :
             SaveDeviceAs(addr, name, SvcMask(AdvUuids(addr)), werr) =>
                LET same == {i \in SavedIdx : saved_devices[i].valid
                                              /\ saved_devices[i].addr = addr}
                    empty == {i \in SavedIdx : ~saved_devices[i].valid}
                    rec == [valid |-> TRUE, addr |-> addr, name |-> name,
                            svc_mask |-> SvcMask(AdvUuids(addr))]
                IN /\ same # {} =>
                        /\ Cardinality(same) = 1
                        /\ \A i \in SavedIdx :
                              saved_devices'[i] =
                                 IF i \in same THEN rec ELSE saved_devices[i]
                   /\ (same = {} /\ empty # {}) =>
                        \A i \in SavedIdx :
                            saved_devices'[i] =
                               IF i = Lowest(empty) THEN rec
                               ELSE saved_devices[i]
                   /\ NoDuplicateAddress(saved_devices')]_vars

\* the strap was saved first and saved again under its new name after two
\* other sensors: its record is still the first one, with the new name, and
\* the fourth slot is still empty
C27_Witness_RenamedInPlace ==
    /\ saved_devices[0].valid
    /\ saved_devices[0].addr = "strap"
    /\ saved_devices[0].name = "MyStrap"
    /\ saved_devices[1].valid
    /\ saved_devices[2].valid
    /\ ~saved_devices[3].valid
    /\ Cardinality({saved_devices[i].addr : i \in 0 .. 2}) = 3

(***************************************************************************)
(* Properties of rejected discovery requests                               *)
(***************************************************************************)
\* C28: a primary-service discovery request that the host stack rejects
\* ends the walk of the slot and scanning is resumed, wherever the request
\* is issued: in start_discovery, when advancing after a subscription, and
\* when advancing after a service was not found.
C28_PrimaryRejectedResumesScan ==
    [][/\ \A conn \in Addrs, werr \in BOOLEAN :
             (/\ ConnectionResult(conn, FALSE, TRUE, werr)
              /\ SlotOf(connections, conn) # -1) =>
                 /\ ~discovering'[SlotOf(connections, conn)]
                 /\ scanning'
       /\ \A slot \in Slots, serr \in {"ok", "fail"} :
             (/\ DiscoverStep(slot, TRUE, serr)
              /\ disc_log'[slot] = "rejected"
              /\ connections'[slot].discover_params.type = "primary") =>
                 /\ ~discovering'[slot]
                 /\ scanning']_vars

\* the strap's Heart Rate service was walked, its Cycling Power service
\* was not found, and the request for the next service was rejected: the
\* walk is over and the relay does not scan
C28_Witness_RejectedAfterNotFound ==
    /\ connections[0].conn = "strap"
    /\ conn_state["strap"] = "connected"
    /\ connections[0].subscribe_count = 1
    /\ connections[0].discover_service_index = 2
    /\ connections[0].discover_params.type = "primary"
    /\ disc_log[0] = "rejected"
    /\ ~discovering[0]
    /\ ~scanning

\* C29: a characteristic or CCC-descriptor discovery request that the
\* host stack rejects does not end the walk of the slot: a request for the
\* next handle is outstanding afterwards.
C29_RejectedRequestContinues ==
    [][\A slot \in Slots, serr \in {"ok", "fail"} :
          (/\ DiscoverStep(slot, TRUE, serr)
           /\ disc_log'[slot] = "rejected"
           /\ connections'[slot].discover_params.type
                  \in {"characteristic", "descriptor"}) =>
              discovering'[slot]]_vars

\* the request for the strap's characteristics was rejected after its
\* Heart Rate service was found: nothing is outstanding, nothing was
\* subscribed, and the walk never reached the other services
C29_Witness_WalkStopped ==
    /\ connections[0].conn = "strap"
    /\ conn_state["strap"] = "connected"
    /\ connections[0].discover_params.type = "characteristic"
    /\ connections[0].discover_service_index = 0
    /\ connections[0].subscribe_count = 0
    /\ disc_log[0] = "rejected"
    /\ ~discovering[0]

(***************************************************************************)
(* The companion writes while a trainer is being walked: the paired        *)
(* trainer is sighted, connected and discovered while the companion app,   *)
(* already connected, writes to the Control Point                          *)
(***************************************************************************)
InitWalk ==
    /\ connections = [i \in Slots |-> EmptySlot]
    /\ InitCPState
    /\ InitGLLimited
    /\ InitDevState(<<"trainer">>, {"trainer"}, {Zwift})

WalkWrites == {<<FTMS_CP_REQUEST_CONTROL>>, SimCmd(500)}

\* the companion writes a command
WalkWrite ==
    /\ Len(gatt_writes) + Len(trainer_rsp) < MaxPending
    /\ \E cmd \in WalkWrites, err \in BOOLEAN : CpWrite(cmd, 0, err)

NextWalk ==
    \/ DeviceFound
    \/ Connected
    \/ DiscoverCallback
    \/ WalkWrite
    \/ WriteComplete

SpecWalk == InitWalk /\ [][NextWalk]_vars

(***************************************************************************)
(* Properties of the Control Point handle during the walk                  *)
(***************************************************************************)
\* the handle of the attribute the outstanding request of a slot finds
FoundHandle(slot) ==
    FindAttr(DB(connections[slot].conn), connections[slot].discover_params)

\* the outstanding request of a slot finds the Control Point characteristic
FindsControlPoint(slot) ==
    /\ connections[slot].discover_params.type = "characteristic"
    /\ connections[slot].discover_service_index = 2
    /\ FoundHandle(slot) # 0
    /\ DB(connections[slot].conn)[FoundHandle(slot)].uuid = "2AD9"

\* C30: the Control Point handle of a slot is recorded in the callback that
\* finds the characteristic, whether or not the subscription to its
\* indications and the next discovery request are accepted; and a write of
\* the companion that is forwarded while the walk of that slot is still
\* going on goes to that slot and handle.
C30_HandleKnownDuringWalk ==
    [][/\ \A slot \in Slots, derr \in BOOLEAN, serr \in {"ok", "fail"} :
             (FindsControlPoint(slot) /\ DiscoverStep(slot, derr, serr)) =>
                 /\ connections'[slot].ftms_control_point_handle
                        = FoundHandle(slot) + 1
                 /\ TrainerSlot' # -1
       /\ \A slot \in Slots, cmd \in WalkWrites :
             (/\ connections[slot].conn # NoConn
              /\ connections[slot].ftms_control_point_handle # 0
              /\ \A j \in Slots :
                    j < slot => connections[j].ftms_control_point_handle = 0
              /\ discovering[slot]
              /\ ~ftms_cp_write_busy
              /\ CpWrite(cmd, 0, FALSE)) =>
                 /\ Len(gatt_writes') = Len(gatt_writes) + 1
                 /\ gatt_writes'[Len(gatt_writes')].slot = slot
                 /\ gatt_writes'[Len(gatt_writes')].handle
                        = connections[slot].ftms_control_point_handle
                 /\ cp_write_log' = "forwarded"]_vars

\* a command is on its way to the trainer in slot 0 while the request for
\* the characteristics after the Control Point is outstanding and the
\* subscription to the Control Point indications was refused
C30_Witness_ForwardedDuringWalk ==
    /\ gatt_writes # <<>>
    /\ gatt_writes[1].slot = 0
    /\ gatt_writes[1].handle = connections[0].ftms_control_point_handle
    /\ connections[0].conn = "trainer"
    /\ discovering[0]
    /\ disc_log[0] # "complete"
    /\ \A e \in host_subs :
          connections[e[1]].subscribe_params[e[2]].notify
              # "ftms_cp_indicate_func"

(***************************************************************************)
(* Properties of rejected and dropped Control Point writes                 *)
(***************************************************************************)
\* C31: a write of the companion with a non-zero offset, or with no bytes,
\* returns the GATT error for an invalid offset, or for an invalid
\* attribute length, and changes nothing else: no peripheral link is
\* bound, the translated flag, the write buffer and the write-busy flag
\* stay, and nothing is handed to the trainer.
C31_InvalidWriteRejected ==
    [][\A cmd \in CompanionWrites, offset \in {0, 1}, err \in BOOLEAN :
          (CpWrite(cmd, offset, err) /\ (offset # 0 \/ Len(cmd) = 0)) =>
              /\ cp_write_ret' = IF offset # 0 THEN ERR_INVALID_OFFSET
                                 ELSE ERR_INVALID_ATTRIBUTE_LEN
              /\ peripheral_conn' = peripheral_conn
              /\ last_cmd_was_converted' = last_cmd_was_converted
              /\ ftms_cp_write_busy' = ftms_cp_write_busy
              /\ ftms_cp_write_buf' = ftms_cp_write_buf
              /\ gatt_writes' = gatt_writes
              /\ sim_event' = sim_event]_vars

\* the first write of the companion came with an offset and was rejected:
\* no link is bound and nothing went to the trainer
C31_Witness_OffsetRejected ==
    /\ cp_write_ret = ERR_INVALID_OFFSET
    /\ cp_write_log = "invalid_offset"
    /\ peripheral_conn = NoConn
    /\ ~ftms_cp_write_busy
    /\ gatt_writes = <<>>
    /\ TrainerSlot # -1

(***************************************************************************)
(* Properties of the indications to the companion                          *)
(***************************************************************************)
\* C32: an indication is handed to the host stack only while a companion
\* link is bound, indications are enabled and no earlier indication is
\* outstanding; so at most one Control Point indication is outstanding.
C32_OneIndicationOutstanding ==
    [][/\ Len(indications') > Len(indications) =>
             /\ peripheral_conn # NoConn
             /\ ftms_cp_indicate_enabled
             /\ ~ftms_cp_indicating
             /\ indications = <<>>
       /\ Len(indications') <= 1
       /\ indications' # <<>> => ftms_cp_indicating']_vars

\* the work handler ran for a second response while the indication of the
\* first was outstanding: one indication is outstanding, the second
\* response was not indicated
C32_Witness_SecondHeldBack ==
    /\ Len(indications) = 1
    /\ ftms_cp_indicating
    /\ ftms_cp_indicate_enabled
    /\ rsp_unsent
    /\ ~ftms_cp_response_work

\* C33: every completion of an indication reported by the host stack,
\* acknowledged or failed, clears the indication-busy flag: after it no
\* indication is outstanding and the flag is clear, so the work handler
\* can indicate the next response.
C33_CompletionClearsBusy ==
    [][IndicateComplete =>
          /\ ~ftms_cp_indicating'
          /\ indications' = <<>>]_vars

\* a response arrived while an indication was outstanding and was held
\* back by the work handler; the indication has since completed, the flag is
\* clear and nothing is outstanding
C33_Witness_CompletedAfterHeldBack ==
    /\ ~ftms_cp_indicating
    /\ indications = <<>>
    /\ rsp_unsent
    /\ ~ftms_cp_response_work
    /\ peripheral_conn # NoConn
    /\ ftms_cp_indicate_enabled

(***************************************************************************)
(* Several walks at once: three paired sensors advertise while the         *)
(* companion app is connected; a companion that goes away makes the relay  *)
(* scan again while the walk of a slot is still going on                   *)
(***************************************************************************)
InitInterleave ==
    /\ connections = [i \in Slots |-> EmptySlot]
    /\ InitCPState
    /\ InitGLLimited
    /\ InitDevState(<<"strap", "trainer">>,
                    {"strap", "trainer"}, {Zwift})

\* the companion app goes away
CompanionGone == \E adv_err \in BOOLEAN : LinkDropped(Zwift, adv_err)

NextInterleave ==
    \/ DeviceFound
    \/ Connected
    \/ CompanionGone
    \/ DiscoverCallback

SpecInterleave == InitInterleave /\ [][NextInterleave]_vars

\* C34: at most one discovery request of a slot is outstanding: a request
\* is issued for a slot only by start_discovery, when nothing is outstanding
\* for the slot, or by the callback of the slot's outstanding request; while
\* a request is outstanding its parameters are changed by that callback only.
\* Walks of different slots interleave.
C34_OneRequestPerSlot ==
    [][\A slot \in Slots :
          /\ \A conn \in Addrs, derr \in BOOLEAN, werr \in BOOLEAN :
                (/\ ConnectionResult(conn, FALSE, derr, werr)
                 /\ SlotOf(connections, conn) = slot) => ~discovering[slot]
          /\ (~discovering[slot] /\ discovering'[slot]) =>
                \E werr \in BOOLEAN :
                    ConnectionResult(connections[slot].conn, FALSE, FALSE, werr)
          /\ (/\ discovering[slot]
              /\ connections'[slot].discover_params
                     # connections[slot].discover_params) =>
                \E derr \in BOOLEAN, serr \in {"ok", "fail"} :
                    DiscoverStep(slot, derr, serr)]_vars

\* the walks of both slots are under way, each past its first request
C34_Witness_TwoWalks ==
    /\ discovering[0]
    /\ discovering[1]
    /\ connections[0].discover_params.type # "primary"
    /\ connections[1].discover_params.type # "primary"

(***************************************************************************)
(* Properties of the cadence of a crank that stands still                  *)
(***************************************************************************)
\* C35: a Cycling Power notification with crank data whose revolution count
\* equals the cached count sets the cached cadence to 0 when at least
\* 4000 ms have passed since the count last changed, and keeps the cadence
\* otherwise; the time of the last change is moved by a notification whose
\* count differs and by no notification whose count is the same.
C35_StalledCrankTimeout ==
    [][\A e \in host_subs, data \in RelayPayloads("2A63") :
          (/\ notify_src' = "2A63"
           /\ notify_func(e[1], e[2], data)
           /\ Len(data) = 8
           /\ Bit(data[1], 5)
           /\ cached_cp_data.valid) =>
              IF U16At(data, 4) = cached_cp_data.last_crank_revs
              THEN /\ cached_cp_data'.cadence =
                         IF uptime - cached_cp_data.last_crank_change_time
                                >= 4000
                         THEN 0 ELSE cached_cp_data.cadence
                   /\ cached_cp_data'.last_crank_change_time =
                         cached_cp_data.last_crank_change_time
              ELSE cached_cp_data'.last_crank_change_time = uptime]_vars

\* the sample (103, 1024) followed another sample at boot and was repeated
\* exactly 4000 ms later: the cadence is 0
C35_Witness_ZeroedAtLimit ==
    /\ cached_cp_data.valid
    /\ cached_cp_data.last_crank_revs = 103
    /\ cached_cp_data.last_crank_change_time = 0
    /\ cached_cp_data.cadence = 0
    /\ last_cp_data_time = 4000
    /\ uptime = 4000
    /\ total_rx_count = 3
    /\ measurement.cp = CpFrame(200, <<103, 1024>>)

(***************************************************************************)
(* Properties of a write that is not forwarded                             *)
(***************************************************************************)
\* C36: a write of the companion that is not forwarded, because no
\* connected slot has a Control Point handle or because a forwarded write is
\* still outstanding, leaves the translated-command flag, the write buffer,
\* the write-busy flag and the writes in flight as they were.
C36_DroppedWriteIsNoOp ==
    [][\A cmd \in CompanionWrites, err \in BOOLEAN :
          (/\ CpWrite(cmd, 0, err)
           /\ cp_write_log' \in {"no_trainer", "busy"}) =>
              /\ last_cmd_was_converted' = last_cmd_was_converted
              /\ ftms_cp_write_buf' = ftms_cp_write_buf
              /\ ftms_cp_write_busy' = ftms_cp_write_busy
              /\ gatt_writes' = gatt_writes]_vars

\* a translated write is in flight and a write that was dropped as busy
\* has cleared the translated-command flag
C36_Witness_FlagClearedByDrop ==
    /\ cp_write_log = "busy"
    /\ ftms_cp_write_busy
    /\ Len(gatt_writes) = 1
    /\ gatt_writes[1].translated
    /\ ftms_cp_write_buf = gatt_writes[1].data
    /\ ~last_cmd_was_converted

(***************************************************************************)
(* Properties of the pending connection attempt                            *)
(***************************************************************************)
\* an attempt is pending: the request was accepted, and neither the
\* connected callback nor the establishment timeout was delivered
AttemptPending ==
    /\ pending_conn # NoConn
    /\ conn_state[pending_conn] = "connecting"
    /\ conn_timeout_work # NoWork

C38_ResponseBufferStable ==
    [][(ftms_cp_indicating /\ indications # <<>>) =>
          ftms_cp_response' = ftms_cp_response]_vars

\* an indication is outstanding and the buffer it refers to no longer holds
\* the bytes that were handed to it
C38_Witness_BufferOverwritten ==
    /\ ftms_cp_indicating
    /\ Len(indications) = 1
    /\ indications[1].data # ftms_cp_response
    /\ rsp_unsent

(***************************************************************************)
(* Properties of the slots' addresses                                      *)
(***************************************************************************)
\* C39: no two connection slots hold a link, pending or established, to the
\* same address, and no report that the scan callback can be run for makes
\* device_found ask for a connection to an address that a slot holds.
C39_OneSlotPerAddress ==
    /\ \A i \in Slots, j \in Slots :
          (i # j /\ connections[i].conn # NoConn)
              => connections[i].conn # connections[j].conn
    /\ scanning =>
          \A dev \in in_range : \A adv \in AdvReports(dev) :
              ConnectRequested(adv)
                  => \A i \in Slots : connections[i].conn # adv.addr

\* the strap and the trainer hold a slot each, both still advertise, a slot
\* is free and the relay scans
C39_Witness_HeldDevicesSighted ==
    /\ connections[0].conn # NoConn
    /\ connections[1].conn # NoConn
    /\ connections[2].conn = NoConn
    /\ conn_state["strap"] = "connected"
    /\ conn_state["trainer"] = "connected"
    /\ {"strap", "trainer"} \subseteq in_range
    /\ scanning
    /\ \A k \in 1 .. Len(device_list) : device_list[k].last_seen = uptime

(***************************************************************************)
(* A slot is used again: the paired trainer is connected and walked, the   *)
(* companion app is connected and writes, links drop, and the paired strap *)
(* that advertises nearby takes the slot the trainer had                   *)
(***************************************************************************)
InitReuse ==
    /\ connections = [i \in Slots |-> IF i = 0 THEN Walked("trainer")
                                      ELSE EmptySlot]
    /\ InitCPState
    /\ InitGLLimited
    /\ device_list = <<Tracked("trainer")>>
    /\ pending_conn = NoConn
    /\ conn_timeout_work = NoWork
    /\ scan_window_active = FALSE
    /\ scan_window_timeout = NoWork
    /\ saved_devices = SavedTable(<<"trainer", "strap">>)
    /\ save_err = "none"
    /\ conn_state = [a \in Addrs |-> IF a \in {"trainer", Zwift}
                                     THEN "connected" ELSE "idle"]
    /\ scanning = TRUE
    /\ discovering = [i \in Slots |-> FALSE]
    /\ host_subs = {<<i, j>> \in Slots \X SubIdx :
                       i = 0 /\ j < Walked("trainer").subscribe_count}
    /\ disc_log = [i \in Slots |-> IF i = 0 THEN "complete" ELSE "none"]
    /\ in_range = {"trainer", "strap"}
    /\ advertising = FALSE
    /\ cached_cp_data = ZeroCpCache
    /\ last_cp_data_time = 0
    /\ total_rx_count = 0
    /\ measurement = NoMeasurements
    /\ notified = <<>>
    /\ notify_src = NoUuid

NextReuse ==
    \/ DeviceFound
    \/ Connected
    \/ Disconnected
    \/ DiscoverCallback
    \/ CompanionLinked /\ WalkWrite
    \/ WriteComplete

SpecReuse == InitReuse /\ [][NextReuse]_vars

\* the handle is the value handle of the Control Point characteristic of
\* the device
IsControlPointOf(dev, handle) ==
    /\ handle - 1 \in 1 .. Len(DB(dev))
    /\ DB(dev)[handle - 1].kind = "chrc"
    /\ DB(dev)[handle - 1].uuid = "2AD9"

\* C40: a slot that gets a connection starts with its Control Point
\* handle, its subscription count and its discovery cursor reset, and every
\* slot that the translator can select as trainer (a connection and a
\* non-zero handle) has a live link and the handle of the Control Point
\* characteristic of the device on that link.
C40_TrainerSlotIsLive ==
    [][\A i \in Slots :
          /\ (connections[i].conn = NoConn /\ connections'[i].conn # NoConn) =>
                /\ connections'[i].ftms_control_point_handle = 0
                /\ connections'[i].subscribe_count = 0
                /\ connections'[i].discover_service_index = 0
          /\ (/\ connections'[i].conn # NoConn
              /\ connections'[i].ftms_control_point_handle # 0) =>
                /\ conn_state'[connections'[i].conn] = "connected"
                /\ IsControlPointOf(connections'[i].conn,
                                    connections'[i].ftms_control_point_handle)]_vars

\* the trainer's link dropped after a write was forwarded to it, the strap
\* took its slot and was walked, and a later write of the companion found no
\* trainer
C40_Witness_SlotReused ==
    /\ connections[0].conn = "strap"
    /\ conn_state["strap"] = "connected"
    /\ conn_state["trainer"] = "idle"
    /\ connections[0].subscribe_count = 1
    /\ connections[0].ftms_control_point_handle = 0
    /\ disc_log[0] = "complete"
    /\ trainer_rsp # <<>>
    /\ cp_write_log = "no_trainer"

====
